---- MODULE Spec2Model ----
(***************************************************************************)
(* Job status API: webhook delivery with retry (src/utils/webhook.js),     *)
(* job lifecycle routes (routes/jobs.js), request validation               *)
(* (middleware/validation.js) and the cleanup service                      *)
(* (services/cleanup.js).                                                  *)
(***************************************************************************)
EXTENDS Integers, Sequences, FiniteSets, TLC

VARIABLES
    envRetries,     \* process.env.MAX_WEBHOOK_RETRIES as read by the constructor
    maxRetries,     \* WebhookManager.maxRetries
    chain,          \* one sendWebhook call chain (the call and its recursive retries)
    now,            \* the clock read by new Date()
    nextId,         \* number of job ids handed out by uuidv4() so far, plus one
    jobs,           \* table jobs: id -> row
    cache,          \* redis keys job:<id> -> cached row
    nextWebhookId,  \* number of webhook ids handed out so far, plus one
    webhooks,       \* table webhooks: id -> row
    lastOp,         \* the request handled last and its response
    everCompleted,  \* history: ids of the jobs whose status has been completed
    batchSize,      \* WebhookManager.batchSize
    req,            \* a request handler in progress, between its awaits
    fan,            \* the sendWebhooks call the handler is awaiting
    reqCount,       \* number of requests started
    procs,          \* request handlers running concurrently, between awaits
    deletedDone,    \* history: ids whose DELETE has been answered with 200
    deliveries,     \* rows of the table webhook_deliveries
    failedPasses,   \* history: sweep passes that ended in their catch
    passes,         \* cleanup passes in progress, between their awaits
    snap,           \* history: store and cache when the running passes began
    redisReady,     \* redisClient.isReady
    mirror,         \* history: the same requests handled with a cache that is always ready
    expiry,         \* redis keys job:<id> -> when the key was set and when it expires
    payloads,       \* the payloads built by createJobPayload for the last request
    lastTriggered,  \* column last_triggered of the table webhooks: id -> time, NULL when absent
    outcomes,       \* history: webhook id -> what sendWebhook returned in the last request
    service,        \* the CleanupService: isRunning and the tasks registered with cron
    lastTick        \* history: the schedule that ticked last and the passes it started

sendVars == <<envRetries, maxRetries, chain>>
storeVars == <<now, nextId, jobs, cache, nextWebhookId, webhooks, lastOp, everCompleted>>
reqVars == <<batchSize, req, fan, reqCount>>
raceVars == <<procs, deletedDone>>
auditVars == <<deliveries, failedPasses>>
passVars == <<passes, snap>>
lateVars == <<service, lastTick>>
extraVars == <<payloads, lastTriggered, outcomes, lateVars>>
sideVars == <<redisReady, mirror, expiry, extraVars>>
vars == <<envRetries, maxRetries, chain, now, nextId, jobs, cache,
          nextWebhookId, webhooks, lastOp, everCompleted,
          batchSize, req, fan, reqCount, procs, deletedDone, deliveries,
          failedPasses, passes, snap, redisReady, mirror, expiry, payloads,
          lastTriggered, outcomes, service, lastTick>>

----------------------------------------------------------------------------
(* Bounds *)

\* calls of CleanupService.start() that find the service stopped
MaxStarts == 2

\* rounds of the loop of sendWebhooks followed below the start of the list
MaxLoops == 4

\* largest numeric value tried for MAX_WEBHOOK_RETRIES
MaxEnvRetries == 2

\* number of jobs created in a run of the lifecycle specification
MaxJobs == 1

\* number of webhooks registered in a run
MaxWebhooks == 1

\* last clock value of the lifecycle specification
MaxClock == 1

\* largest number of operations in one bulk request
MaxBulkOps == 1

\* number of jobs created in a run of the cleanup specification
MaxSweepJobs == 2

\* last clock value of the cleanup specification
MaxTime == 4

\* number of requests started in a run of the request specification
MaxRequests == 2

\* number of webhooks registered in a run of the request specification
MaxReqWebhooks == 2

\* number of request handlers in flight at once
MaxProcs == 2

\* number of operations of a bulk request in the bulk specification
MaxBulkLen == 2

\* number of sweep passes that meet an exception
MaxFailedPasses == 1

----------------------------------------------------------------------------
(* WebhookManager: constructor, sendWebhook, shouldRetry *)

\* stands for an environment variable that is not set (parseInt gives NaN)
Unset == -1

DefaultMaxRetries == 3

\* this.maxRetries = parseInt(process.env.MAX_WEBHOOK_RETRIES) || 3
\* parseInt(undefined) is NaN and NaN || 3 is 3; 0 || 3 is 3 as well.
ConstructorMaxRetries(env) ==
    IF env = Unset THEN DefaultMaxRetries
    ELSE IF env = 0 THEN DefaultMaxRetries
    ELSE env

DefaultBatchSize == 10

\* this.batchSize = parseInt(process.env.WEBHOOK_BATCH_SIZE) || 10
ConstructorBatchSize(env) ==
    IF env = Unset THEN DefaultBatchSize
    ELSE IF env = 0 THEN DefaultBatchSize
    ELSE env

NoResponse == 0
NoCode == "none"

\* What the endpoint (or the network) does with one HTTP request.
HttpStatuses == {200, 204, 304, 404, 499, 500, 503}
NetCodes == {"ECONNRESET", "ETIMEDOUT", "ECONNREFUSED", "ERR_INVALID_URL"}
Replies == [status : HttpStatuses, code : {NoCode}]
           \cup [status : {NoResponse}, code : NetCodes]

\* await axios(config): the config sets no validateStatus, so a status
\* outside [200,300) rejects with an error that carries the response; a
\* network failure rejects with an error that carries a code and no response.
Axios(reply) ==
    IF reply.code # NoCode
    THEN [ok |-> FALSE, status |-> NoResponse,
          error |-> [code |-> reply.code, response |-> NoResponse]]
    ELSE IF reply.status >= 200 /\ reply.status < 300
    THEN [ok |-> TRUE, status |-> reply.status,
          error |-> [code |-> NoCode, response |-> NoResponse]]
    ELSE [ok |-> FALSE, status |-> NoResponse,
          error |-> [code |-> IF reply.status >= 500 THEN "ERR_BAD_RESPONSE"
                                                      ELSE "ERR_BAD_REQUEST",
                     response |-> reply.status]]

\* shouldRetry that also retries client errors (status >= 400)
shouldRetry_ClientErrors(error) ==
    IF error.code = "ECONNRESET" \/ error.code = "ETIMEDOUT" THEN TRUE
    ELSE IF error.response # NoResponse /\ error.response >= 400 THEN TRUE
    ELSE FALSE

\* shouldRetry(error)
shouldRetry(error) ==
    IF error.code = "ECONNRESET" \/ error.code = "ETIMEDOUT" THEN TRUE
    ELSE IF error.response # NoResponse /\ error.response >= 500 THEN TRUE
    ELSE FALSE

\* a delay that grows by one second per retry
BackoffDelay_Linear(retryCount) == (retryCount + 1) * 1000

\* Math.pow(2, retryCount) * 1000
BackoffDelay(retryCount) == (2 ^ retryCount) * 1000

\* The try block of sendWebhook: returns true on 2xx, throws otherwise.
\* "new Error(`HTTP ...`)" has neither code nor response.
TryBlock(reply) ==
    LET r == Axios(reply) IN
    IF r.ok
    THEN IF r.status >= 200 /\ r.status < 300
         THEN [kind |-> "return", value |-> TRUE,
               error |-> [code |-> NoCode, response |-> NoResponse]]
         ELSE [kind |-> "throw", value |-> FALSE,
               error |-> [code |-> NoCode, response |-> NoResponse]]
    ELSE [kind |-> "throw", value |-> FALSE, error |-> r.error]

\* catch block that compares the retry counter with <= instead of <
CatchBlock_OffByOne(error, retryCount, max) ==
    IF retryCount <= max /\ shouldRetry(error)
    THEN [kind |-> "retry", value |-> FALSE]
    ELSE [kind |-> "return", value |-> FALSE]

\* The catch block of sendWebhook: retry after a backoff, or return false.
CatchBlock(error, retryCount, max) ==
    IF retryCount < max /\ shouldRetry(error)
    THEN [kind |-> "retry", value |-> FALSE]
    ELSE [kind |-> "return", value |-> FALSE]

\* A fresh call sendWebhook(url, payload, headers) with retryCount = 0.
NewChain ==
    [pc |-> "request", retryCount |-> 0, replies |-> <<>>, delays |-> <<>>,
     settled |-> "pending", value |-> FALSE]

\* sendWebhook whose catch block rethrows an error that is not retried
sendWebhook_Rethrow(c, reply, max) ==
    LET t == TryBlock(reply)
        k == IF t.kind = "return" THEN t
             ELSE CatchBlock(t.error, c.retryCount, max)
        c1 == [c EXCEPT !.replies = Append(@, reply)]
    IN  IF t.kind = "return"
        THEN [c1 EXCEPT !.pc = "done", !.settled = "resolved", !.value = t.value]
        ELSE IF k.kind = "return"
        THEN [c1 EXCEPT !.pc = "done", !.settled = "rejected"]
        ELSE [c1 EXCEPT !.pc = "backoff",
                        !.delays = Append(@, BackoffDelay(c.retryCount))]

\* One invocation of sendWebhook from the axios call to its return or to the
\* start of the backoff timer.
sendWebhook(c, reply, max) ==
    LET t == TryBlock(reply)
        k == IF t.kind = "return" THEN t
             ELSE CatchBlock(t.error, c.retryCount, max)
        c1 == [c EXCEPT !.replies = Append(@, reply)]
    IN  IF k.kind = "return"
        THEN [c1 EXCEPT !.pc = "done", !.settled = "resolved", !.value = k.value]
        ELSE [c1 EXCEPT !.pc = "backoff",
                        !.delays = Append(@, BackoffDelay(c.retryCount))]

\* The backoff timer fires: return this.sendWebhook(..., retryCount + 1)
RetryAfterBackoff(c) ==
    [c EXCEPT !.pc = "request", !.retryCount = @ + 1]

----------------------------------------------------------------------------
(* Store, cache and request validation *)

\* SQL NULL / JavaScript null in a numeric or timestamp column
Null == -1

Statuses == {"pending", "running", "completed", "failed", "cancelled"}
EventTypes == {"status_change", "progress_update", "completion", "failure"}

Has(body, field) == field \in DOMAIN body

Restrict(r, D) == [f \in D |-> r[f]]

Put(table, id, row) ==
    [i \in (DOMAIN table) \cup {id} |-> IF i = id THEN row ELSE table[i]]

Remove(table, id) == [i \in (DOMAIN table) \ {id} |-> table[i]]

EmptyTable == [i \in {} |-> Null]

\* createJobSchema: status in the enum (default pending), progress in
\* [0,100] (default 0), ttl positive; the other fields do not reach the model
createJobSchema(body) ==
    LET bad == \/ (Has(body, "status") /\ body.status \notin Statuses)
               \/ (Has(body, "progress") /\ (body.progress < 0 \/ body.progress > 100))
               \/ (Has(body, "ttl") /\ body.ttl <= 0)
        withDefaults ==
            [f \in (DOMAIN body) \cup {"status", "progress"} |->
                IF Has(body, f) THEN body[f]
                ELSE IF f = "status" THEN "pending" ELSE 0]
    IN  [error |-> bad, value |-> IF bad THEN body ELSE withDefaults]

\* updateJobSchema without the upper limit of progress
updateJobSchema_NoMax(body) ==
    LET bad == \/ (Has(body, "status") /\ body.status \notin Statuses)
               \/ (Has(body, "progress") /\ body.progress < 0)
               \/ (Has(body, "ttl") /\ body.ttl <= 0)
    IN  [error |-> bad, value |-> body]

\* updateJobSchema: the same constraints, every field optional, no default
updateJobSchema(body) ==
    LET bad == \/ (Has(body, "status") /\ body.status \notin Statuses)
               \/ (Has(body, "progress") /\ (body.progress < 0 \/ body.progress > 100))
               \/ (Has(body, "ttl") /\ body.ttl <= 0)
    IN  [error |-> bad, value |-> body]

\* db('jobs').insert(jobData).returning('*'): columns not given are NULL
InsertedRow(jobData) ==
    [id |-> jobData.id,
     status |-> jobData.status,
     progress |-> jobData.progress,
     ttl |-> IF Has(jobData, "ttl") THEN jobData.ttl ELSE Null,
     created_at |-> jobData.created_at,
     updated_at |-> jobData.updated_at,
     completed_at |-> Null]

\* db('jobs').where('id', id).update(updateData).returning('*')
UpdatedRow(row, updateData) ==
    [f \in DOMAIN row |-> IF Has(updateData, f) THEN updateData[f] ELSE row[f]]

\* { ...body, extra }: the fields of extra override those of body
Spread(body, extra) ==
    [f \in (DOMAIN body) \cup (DOMAIN extra) |->
        IF Has(extra, f) THEN extra[f] ELSE body[f]]

----------------------------------------------------------------------------
(* triggerWebhooks *)

\* webhook query that leaves out the is_active condition
MatchingWebhooks_IgnoreActive(hooks, eventType) ==
    {w \in DOMAIN hooks : eventType \in hooks[w].events}

\* db('webhooks').where('is_active', true).whereRaw('events @> ?', [eventType])
MatchingWebhooks(hooks, eventType) ==
    {w \in DOMAIN hooks : hooks[w].is_active /\ eventType \in hooks[w].events}

\* triggerWebhooks(job, eventType, previousState): the event, whether a
\* previous state was passed, and the webhooks handed to sendWebhooks (none
\* when the query returns no row: no payload is built and nothing is sent)
triggerWebhooks(hooks, job, eventType, hasPrevious) ==
    [event |-> eventType, jobId |-> job.id, previous |-> hasPrevious,
     sentTo |-> MatchingWebhooks(hooks, eventType)]

----------------------------------------------------------------------------
(* WebhookManager.createJobPayload *)

\* the value read from a property that an object does not have
Undefined == Null - 1

\* obj.field
Prop(obj, field) == IF Has(obj, field) THEN obj[field] ELSE Undefined

\* the values an if () takes as true: a Date, a string of the model
Truthy(v) == v \notin {Undefined, Null}

\* createJobPayload(job, event, previousState) at time t; previousState is
\* NoPrevious when the caller passes none.  name, tags and metadata are read
\* like id, status and progress and do not reach the model
NoPrevious == [id |-> 0]

createJobPayload(job, event, previousState, t) ==
    LET base == [id |-> Prop(job, "id"),
                 status |-> Prop(job, "status"),
                 progress |-> Prop(job, "progress"),
                 createdAt |-> Prop(job, "createdAt"),
                 updatedAt |-> Prop(job, "updatedAt")]
        withCompleted ==
            IF event = "completion" /\ Truthy(Prop(job, "completedAt"))
            THEN Spread(base, [completedAt |-> Prop(job, "completedAt")])
            ELSE base
        withError ==
            IF event = "failure" /\ Truthy(Prop(job, "error"))
            THEN Spread(withCompleted, [error |-> Prop(job, "error")])
            ELSE withCompleted
        payload == [event |-> event, timestamp |-> t, job |-> withError]
    IN  IF previousState # NoPrevious
        THEN Spread(payload, [previousState |-> previousState])
        ELSE payload

\* no payload is built for an event that no webhook listens to
NoPayload == [event |-> "none"]

\* the payloads triggerWebhooks builds for the events of one request, in the
\* order of the calls: job is the row handed to triggerWebhooks, currentJob
\* the third argument of the calls that pass one
BuiltPayloads(events, job, currentJob, t) ==
    [i \in DOMAIN events |->
        IF events[i].sentTo = {} THEN NoPayload
        ELSE createJobPayload(job, events[i].event,
                              IF events[i].previous THEN currentJob ELSE NoPrevious, t)]

----------------------------------------------------------------------------
(* Routes of /api/jobs *)

NoRow == [id |-> 0]
NoBody == [f \in {} |-> Null]

Response(op, id, body, code, prev, events) ==
    [op |-> op, id |-> id, body |-> body, code |-> code, prev |-> prev,
     events |-> events, ops |-> <<>>, results |-> <<>>,
     at |-> 0, before |-> EmptyTable, successCount |-> 0, faults |-> {},
     emitErrors |-> {}]

IdleReq ==
    [pc |-> "idle", op |-> "none", id |-> 0, body |-> NoBody, code |-> 0,
     currentJob |-> NoRow, updatedJob |-> NoRow, todo |-> <<>>, events |-> <<>>,
     emitErrors |-> {}]

IdleFan ==
    [pc |-> "idle", list |-> <<>>, i |-> 0, chains |-> EmptyTable, results |-> <<>>]

IdleProc ==
    [pc |-> "idle", op |-> "none", id |-> 0, body |-> NoBody, job |-> NoRow, code |-> 0,
     afterDelete |-> FALSE, updated |-> NoRow, events |-> <<>>]

InitReqIdle ==
    /\ batchSize = DefaultBatchSize
    /\ req = IdleReq
    /\ fan = IdleFan
    /\ reqCount = 0
    /\ procs = [p \in 1 .. MaxProcs |-> IdleProc]
    /\ deletedDone = {}

\* the two runs of a cleanup pass
Passes == {1, 2}

IdlePass == [pc |-> "idle", kind |-> "none", at |-> 0, ids |-> {}, keys |-> {}]

NoSnap ==
    [active |-> FALSE, kind |-> "none", at |-> 0, jobs |-> EmptyTable,
     cache |-> EmptyTable]

\* the tables, the id counter and the response of a server
NoServer ==
    [jobs |-> EmptyTable, cache |-> EmptyTable, nextId |-> 1, code |-> 0,
     job |-> NoRow, readStore |-> FALSE]

NoMirror == [ref |-> NoServer, down |-> FALSE, readStore |-> FALSE]

\* new CleanupService(): not running, nothing registered with cron
NewService == [isRunning |-> FALSE, hourly |-> 0, quarter |-> 0]

NoTick == [schedule |-> "none", passes |-> 0, running |-> FALSE]

InitStore ==
    /\ redisReady = TRUE
    /\ mirror = NoMirror
    /\ expiry = EmptyTable
    /\ payloads = <<>>
    /\ lastTriggered = EmptyTable
    /\ outcomes = EmptyTable
    /\ service = NewService
    /\ lastTick = NoTick
    /\ passes = [p \in Passes |-> IdlePass]
    /\ snap = NoSnap
    /\ now = 0
    /\ nextId = 1
    /\ jobs = EmptyTable
    /\ cache = EmptyTable
    /\ nextWebhookId = 1
    /\ webhooks = EmptyTable
    /\ lastOp = Response("none", 0, NoBody, 0, NoRow, <<>>)
    /\ everCompleted = {}
    /\ deliveries = <<>>
    /\ failedPasses = 0

\* history variable: the ids whose row has status completed join the set
NoteCompleted(table) ==
    everCompleted \cup {i \in DOMAIN table : table[i].status = "completed"}

\* POST /api/jobs without the redis.set of the created job
CreateJob_NoCache(body, maxJobs) ==
    LET v == createJobSchema(body) IN
    IF v.error
    THEN /\ lastOp' = Response("create", 0, body, 400, NoRow, <<>>)
         /\ UNCHANGED <<now, nextId, jobs, cache, nextWebhookId, webhooks, everCompleted>>
    ELSE /\ nextId <= maxJobs
         /\ LET jobData == Spread([id |-> nextId],
                             Spread(v.value, [created_at |-> now, updated_at |-> now]))
                job == InsertedRow(jobData)
            IN  /\ jobs' = Put(jobs, job.id, job)
                /\ lastOp' = Response("create", job.id, body, 201, NoRow,
                                <<triggerWebhooks(webhooks, job, "status_change", FALSE)>>)
                /\ everCompleted' = NoteCompleted(jobs')
         /\ nextId' = nextId + 1
         /\ UNCHANGED <<now, cache, nextWebhookId, webhooks>>

\* POST /api/jobs
CreateJob(body, maxJobs) ==
    LET v == createJobSchema(body) IN
    IF v.error
    THEN /\ lastOp' = Response("create", 0, body, 400, NoRow, <<>>)
         /\ UNCHANGED <<now, nextId, jobs, cache, nextWebhookId, webhooks, everCompleted>>
    ELSE /\ nextId <= maxJobs
         /\ LET jobData == Spread([id |-> nextId],
                             Spread(v.value, [created_at |-> now, updated_at |-> now]))
                job == InsertedRow(jobData)
            IN  /\ jobs' = Put(jobs, job.id, job)
                /\ cache' = Put(cache, job.id, job)
                /\ lastOp' = Response("create", job.id, body, 201, NoRow,
                                <<triggerWebhooks(webhooks, job, "status_change", FALSE)>>)
                /\ everCompleted' = NoteCompleted(jobs')
         /\ nextId' = nextId + 1
         /\ UNCHANGED <<now, nextWebhookId, webhooks>>

\* GET /api/jobs/:id
GetJob(id) ==
    IF id \in DOMAIN cache
    THEN /\ lastOp' = Response("get", id, NoBody, 200, cache[id], <<>>)
         /\ UNCHANGED <<now, nextId, jobs, cache, nextWebhookId, webhooks, everCompleted>>
    ELSE IF id \notin DOMAIN jobs
    THEN /\ lastOp' = Response("get", id, NoBody, 404, NoRow, <<>>)
         /\ UNCHANGED <<now, nextId, jobs, cache, nextWebhookId, webhooks, everCompleted>>
    ELSE /\ cache' = Put(cache, id, jobs[id])
         /\ lastOp' = Response("get", id, NoBody, 200, NoRow, <<>>)
         /\ UNCHANGED <<now, nextId, jobs, nextWebhookId, webhooks, everCompleted>>

\* progress check chained with else-if to the status check
UpdateEvents_ElseIf(hooks, body, currentJob, updatedJob) ==
    IF Has(body, "status") /\ body.status # currentJob.status
    THEN <<triggerWebhooks(hooks, updatedJob, "status_change", TRUE)>>
    ELSE IF Has(body, "progress") /\ body.progress # currentJob.progress
    THEN <<triggerWebhooks(hooks, updatedJob, "progress_update", TRUE)>>
    ELSE <<>>

\* the progress check placed before the status check
UpdateEvents_ProgressFirst(hooks, body, currentJob, updatedJob) ==
    (IF Has(body, "progress") /\ body.progress # currentJob.progress
     THEN <<triggerWebhooks(hooks, updatedJob, "progress_update", TRUE)>>
     ELSE <<>>)
    \o
    (IF Has(body, "status") /\ body.status # currentJob.status
     THEN <<triggerWebhooks(hooks, updatedJob, "status_change", TRUE)>>
     ELSE <<>>)

\* a completion event dispatched when the status becomes completed
UpdateEvents_Completion(hooks, body, currentJob, updatedJob) ==
    (IF Has(body, "status") /\ body.status # currentJob.status
     THEN <<triggerWebhooks(hooks, updatedJob, "status_change", TRUE)>>
          \o (IF body.status = "completed"
              THEN <<triggerWebhooks(hooks, updatedJob, "completion", TRUE)>>
              ELSE <<>>)
     ELSE <<>>)
    \o
    (IF Has(body, "progress") /\ body.progress # currentJob.progress
     THEN <<triggerWebhooks(hooks, updatedJob, "progress_update", TRUE)>>
     ELSE <<>>)

\* the events PUT /api/jobs/:id dispatches, in order
UpdateEvents(hooks, body, currentJob, updatedJob) ==
    (IF Has(body, "status") /\ body.status # currentJob.status
     THEN <<triggerWebhooks(hooks, updatedJob, "status_change", TRUE)>>
     ELSE <<>>)
    \o
    (IF Has(body, "progress") /\ body.progress # currentJob.progress
     THEN <<triggerWebhooks(hooks, updatedJob, "progress_update", TRUE)>>
     ELSE <<>>)

\* updateData of PUT /api/jobs/:id
PutUpdateData(body, currentJob, t) ==
    LET base == Spread(body, [updated_at |-> t]) IN
    IF Has(body, "status") /\ body.status = "completed" /\ currentJob.completed_at = Null
    THEN Spread(base, [completed_at |-> t])
    ELSE base

\* PUT /api/jobs/:id inserting the row when the id is absent
UpdateJob_Upsert(id, body) ==
    LET v == updateJobSchema(body) IN
    IF v.error
    THEN /\ lastOp' = Response("update", id, body, 400, NoRow, <<>>)
         /\ UNCHANGED <<now, nextId, jobs, cache, nextWebhookId, webhooks, everCompleted>>
    ELSE LET currentJob == IF id \in DOMAIN jobs THEN jobs[id]
                           ELSE InsertedRow([id |-> id, status |-> "pending",
                                             progress |-> 0, created_at |-> now,
                                             updated_at |-> now])
             updatedJob == UpdatedRow(currentJob, PutUpdateData(v.value, currentJob, now))
         IN  /\ jobs' = Put(jobs, id, updatedJob)
             /\ cache' = Remove(cache, id)
             /\ lastOp' = Response("update", id, body,
                             IF id \in DOMAIN jobs THEN 200 ELSE 404, currentJob,
                             UpdateEvents(webhooks, v.value, currentJob, updatedJob))
             /\ everCompleted' = NoteCompleted(jobs')
             /\ UNCHANGED <<now, nextId, nextWebhookId, webhooks>>

\* PUT /api/jobs/:id without the redis.del of the updated job
UpdateJob_KeepCache(id, body) ==
    LET v == updateJobSchema(body) IN
    IF v.error
    THEN /\ lastOp' = Response("update", id, body, 400, NoRow, <<>>)
         /\ UNCHANGED <<now, nextId, jobs, cache, nextWebhookId, webhooks, everCompleted>>
    ELSE IF id \notin DOMAIN jobs
    THEN /\ lastOp' = Response("update", id, body, 404, NoRow, <<>>)
         /\ UNCHANGED <<now, nextId, jobs, cache, nextWebhookId, webhooks, everCompleted>>
    ELSE LET currentJob == jobs[id]
             updatedJob == UpdatedRow(currentJob, PutUpdateData(v.value, currentJob, now))
         IN  /\ jobs' = Put(jobs, id, updatedJob)
             /\ lastOp' = Response("update", id, body, 200, currentJob,
                             UpdateEvents(webhooks, v.value, currentJob, updatedJob))
             /\ everCompleted' = NoteCompleted(jobs')
             /\ UNCHANGED <<now, nextId, cache, nextWebhookId, webhooks>>

\* PUT /api/jobs/:id
UpdateJob(id, body) ==
    LET v == updateJobSchema(body) IN
    IF v.error
    THEN /\ lastOp' = Response("update", id, body, 400, NoRow, <<>>)
         /\ UNCHANGED <<now, nextId, jobs, cache, nextWebhookId, webhooks, everCompleted>>
    ELSE IF id \notin DOMAIN jobs
    THEN /\ lastOp' = Response("update", id, body, 404, NoRow, <<>>)
         /\ UNCHANGED <<now, nextId, jobs, cache, nextWebhookId, webhooks, everCompleted>>
    ELSE LET currentJob == jobs[id]
             updatedJob == UpdatedRow(currentJob, PutUpdateData(v.value, currentJob, now))
         IN  /\ jobs' = Put(jobs, id, updatedJob)
             /\ cache' = Remove(cache, id)
             /\ lastOp' = Response("update", id, body, 200, currentJob,
                             UpdateEvents(webhooks, v.value, currentJob, updatedJob))
             /\ everCompleted' = NoteCompleted(jobs')
             /\ UNCHANGED <<now, nextId, nextWebhookId, webhooks>>

\* DELETE /api/jobs/:id with a status_change event for the removed job
DeleteJob_Emits(id) ==
    IF id \notin DOMAIN jobs
    THEN /\ lastOp' = Response("delete", id, NoBody, 404, NoRow, <<>>)
         /\ UNCHANGED <<now, nextId, jobs, cache, nextWebhookId, webhooks, everCompleted>>
    ELSE /\ jobs' = Remove(jobs, id)
         /\ cache' = Remove(cache, id)
         /\ lastOp' = Response("delete", id, NoBody, 200, NoRow,
                         <<triggerWebhooks(webhooks, jobs[id], "status_change", FALSE)>>)
         /\ UNCHANGED <<now, nextId, nextWebhookId, webhooks, everCompleted>>

\* DELETE /api/jobs/:id
DeleteJob(id) ==
    IF id \notin DOMAIN jobs
    THEN /\ lastOp' = Response("delete", id, NoBody, 404, NoRow, <<>>)
         /\ UNCHANGED <<now, nextId, jobs, cache, nextWebhookId, webhooks, everCompleted>>
    ELSE /\ jobs' = Remove(jobs, id)
         /\ cache' = Remove(cache, id)
         /\ lastOp' = Response("delete", id, NoBody, 200, NoRow, <<>>)
         /\ UNCHANGED <<now, nextId, nextWebhookId, webhooks, everCompleted>>

\* updateData of the update case of POST /api/jobs/bulk
BulkUpdateData(data, t) ==
    LET base == Restrict(Spread(data, [updated_at |-> t]),
                         ((DOMAIN data) \cup {"updated_at"}) \ {"id"})
    IN  IF Has(base, "status") /\ base.status = "completed"
        THEN Spread(base, [completed_at |-> t])
        ELSE base

\* one iteration of the loop of POST /api/jobs/bulk; st carries the tables,
\* the id counter, the events dispatched and the results pushed so far
BulkStep(st, op, hooks, t) ==
    IF op.operation = "create"
    THEN LET jobData == Spread([id |-> st.nextId],
                          Spread(op.data, [created_at |-> t, updated_at |-> t]))
             createdJob == InsertedRow(jobData)
         IN  [jobs |-> Put(st.jobs, createdJob.id, createdJob),
              cache |-> Put(st.cache, createdJob.id, createdJob),
              nextId |-> st.nextId + 1,
              events |-> Append(st.events,
                           triggerWebhooks(hooks, createdJob, "status_change", FALSE)),
              results |-> Append(st.results, [operation |-> "create", success |-> TRUE])]
    ELSE IF op.operation = "update"
    THEN IF op.data.id \in DOMAIN st.jobs
         THEN LET updatedJob == UpdatedRow(st.jobs[op.data.id], BulkUpdateData(op.data, t))
              IN  [st EXCEPT !.jobs = Put(st.jobs, op.data.id, updatedJob),
                             !.cache = Remove(st.cache, op.data.id),
                             !.events = Append(@,
                                triggerWebhooks(hooks, updatedJob, "status_change", FALSE)),
                             !.results = Append(@, [operation |-> "update", success |-> TRUE])]
         ELSE [st EXCEPT !.results = Append(@, [operation |-> "update", success |-> FALSE])]
    ELSE IF op.data.id \in DOMAIN st.jobs
         THEN [st EXCEPT !.jobs = Remove(st.jobs, op.data.id),
                         !.cache = Remove(st.cache, op.data.id),
                         !.results = Append(@, [operation |-> "delete", success |-> TRUE])]
         ELSE [st EXCEPT !.results = Append(@, [operation |-> "delete", success |-> FALSE])]

\* the catch of one iteration: the failed operation is pushed to the results
BulkCatch(st, op) ==
    [st EXCEPT !.results = Append(@, [operation |-> op.operation, success |-> FALSE])]

\* the loop stopping at the first operation that throws
BulkIteration_Abort(st, op, faults, hooks, t) ==
    IF faults # {} /\ Len(st.results) + 1 >= CHOOSE k \in faults : \A j \in faults : k <= j
    THEN BulkCatch(st, op)
    ELSE BulkStep(st, op, hooks, t)

\* one iteration with its try/catch; faults are the positions of the
\* operations whose first store call throws
BulkIteration(st, op, faults, hooks, t) ==
    IF Len(st.results) + 1 \in faults
    THEN BulkCatch(st, op)
    ELSE BulkStep(st, op, hooks, t)

RECURSIVE BulkLoop(_, _, _, _, _)
\* for (const op of operations) { try { ... } catch (error) { ... } }
BulkLoop(st, ops, faults, hooks, t) ==
    IF ops = <<>> THEN st
    ELSE BulkLoop(BulkIteration(st, Head(ops), faults, hooks, t),
                  Tail(ops), faults, hooks, t)

\* results.filter(r => r.success).length
SuccessCount(results) ==
    Cardinality({i \in 1 .. Len(results) : results[i].success})

\* bulkOperationsSchema: 1 to 100 operations, a create validated by
\* createJobSchema (defaults applied), an update by the keys of updateJobSchema
bulkOperationsSchema(ops) ==
    LET checked(op) ==
            IF op.operation = "create" THEN createJobSchema(op.data)
            ELSE IF op.operation = "update"
            THEN updateJobSchema(Restrict(op.data, (DOMAIN op.data) \ {"id"}))
            ELSE [error |-> FALSE, value |-> op.data]
        bad == \/ Len(ops) < 1
               \/ Len(ops) > 100
               \/ \E i \in 1 .. Len(ops) : checked(ops[i]).error
    IN  [error |-> bad,
         value |-> IF bad THEN ops
                   ELSE [i \in 1 .. Len(ops) |->
                           IF ops[i].operation = "create"
                           THEN [operation |-> "create", data |-> checked(ops[i]).value]
                           ELSE ops[i]]]

NumCreates(ops) == Cardinality({i \in 1 .. Len(ops) : ops[i].operation = "create"})

\* POST /api/jobs/bulk with store errors at the positions faults
BulkApplyFaulty(ops, faults, maxJobs) ==
    LET v == bulkOperationsSchema(ops) IN
    IF v.error
    THEN /\ lastOp' = [Response("bulk", 0, NoBody, 400, NoRow, <<>>) EXCEPT !.ops = ops]
         /\ UNCHANGED <<now, nextId, jobs, cache, nextWebhookId, webhooks, everCompleted>>
    ELSE /\ nextId + NumCreates(ops) <= maxJobs + 1
         /\ \E st \in {BulkLoop([jobs |-> jobs, cache |-> cache, nextId |-> nextId,
                                  events |-> <<>>, results |-> <<>>],
                                 v.value, faults, webhooks, now)} :
                /\ jobs' = st.jobs
                /\ cache' = st.cache
                /\ nextId' = st.nextId
                /\ lastOp' = [Response("bulk", 0, NoBody, 200, NoRow, st.events)
                                EXCEPT !.ops = ops, !.results = st.results,
                                       !.successCount = SuccessCount(st.results),
                                       !.faults = faults]
                /\ everCompleted' = NoteCompleted(jobs) \cup NoteCompleted(st.jobs)
         /\ UNCHANGED <<now, nextWebhookId, webhooks>>

\* POST /api/jobs/bulk
BulkApply(ops, maxJobs) == BulkApplyFaulty(ops, {}, maxJobs)

----------------------------------------------------------------------------
(* Routes of /api/webhooks *)

\* A URL string is written scheme ":" rest; an empty scheme stands for a
\* string without a scheme part, such as "a.example/hook".
Lower(scheme) ==
    CASE scheme = "HTTP" -> "http"
      [] scheme = "HTTPS" -> "https"
      [] OTHER -> scheme

\* new URL(url): throws without a scheme; protocol is the scheme in lower
\* case followed by ":"
ParseUrl(url) ==
    IF url.scheme = ""
    THEN [ok |-> FALSE, protocol |-> ""]
    ELSE [ok |-> TRUE, protocol |-> Lower(url.scheme) \o ":"]

\* validateWebhookUrl(url)
validateWebhookUrl(url) ==
    LET parsed == ParseUrl(url)
    IN  parsed.ok /\ parsed.protocol \in {"http:", "https:"}

\* webhookSchema: url a URI with a scheme, events a non-empty array of event
\* types, isActive defaulting to true
webhookSchema(body) ==
    LET bad == \/ ~Has(body, "url")
               \/ (Has(body, "url") /\ body.url.scheme = "")
               \/ ~Has(body, "events")
               \/ (Has(body, "events") /\ body.events = {})
               \/ (Has(body, "events") /\ ~(body.events \subseteq EventTypes))
    IN  [error |-> bad,
         value |-> IF bad \/ Has(body, "isActive") THEN body
                   ELSE Spread(body, [isActive |-> TRUE])]

\* POST /api/webhooks without the validateWebhookUrl check
RegisterWebhookBody_AnyScheme(body, maxWebhooks) ==
    LET v == webhookSchema(body) IN
    IF v.error
    THEN /\ lastOp' = Response("webhook_create", 0, body, 400, NoRow, <<>>)
         /\ UNCHANGED <<now, nextId, jobs, cache, nextWebhookId, webhooks, everCompleted>>
    ELSE /\ nextWebhookId <= maxWebhooks
         /\ webhooks' = Put(webhooks, nextWebhookId,
                            [id |-> nextWebhookId, url |-> v.value.url,
                             events |-> v.value.events, is_active |-> v.value.isActive])
         /\ nextWebhookId' = nextWebhookId + 1
         /\ lastOp' = Response("webhook_create", nextWebhookId, body, 201, NoRow, <<>>)
         /\ UNCHANGED <<now, nextId, jobs, cache, everCompleted>>

\* POST /api/webhooks
RegisterWebhookBody(body, maxWebhooks) ==
    LET v == webhookSchema(body) IN
    IF v.error
    THEN /\ lastOp' = Response("webhook_create", 0, body, 400, NoRow, <<>>)
         /\ UNCHANGED <<now, nextId, jobs, cache, nextWebhookId, webhooks, everCompleted>>
    ELSE IF ~validateWebhookUrl(v.value.url)
    THEN /\ lastOp' = Response("webhook_create", 0, body, 400, NoRow, <<>>)
         /\ UNCHANGED <<now, nextId, jobs, cache, nextWebhookId, webhooks, everCompleted>>
    ELSE /\ nextWebhookId <= maxWebhooks
         /\ webhooks' = Put(webhooks, nextWebhookId,
                            [id |-> nextWebhookId, url |-> v.value.url,
                             events |-> v.value.events, is_active |-> v.value.isActive])
         /\ nextWebhookId' = nextWebhookId + 1
         /\ lastOp' = Response("webhook_create", nextWebhookId, body, 201, NoRow, <<>>)
         /\ UNCHANGED <<now, nextId, jobs, cache, everCompleted>>

\* PUT /api/webhooks/:id
UpdateWebhook(id, body) ==
    LET v == webhookSchema(body) IN
    IF v.error
    THEN /\ lastOp' = Response("webhook_update", id, body, 400, NoRow, <<>>)
         /\ UNCHANGED <<now, nextId, jobs, cache, nextWebhookId, webhooks, everCompleted>>
    ELSE IF ~validateWebhookUrl(v.value.url)
    THEN /\ lastOp' = Response("webhook_update", id, body, 400, NoRow, <<>>)
         /\ UNCHANGED <<now, nextId, jobs, cache, nextWebhookId, webhooks, everCompleted>>
    ELSE IF id \notin DOMAIN webhooks
    THEN /\ lastOp' = Response("webhook_update", id, body, 404, NoRow, <<>>)
         /\ UNCHANGED <<now, nextId, jobs, cache, nextWebhookId, webhooks, everCompleted>>
    ELSE /\ webhooks' = Put(webhooks, id,
                            [id |-> id, url |-> v.value.url,
                             events |-> v.value.events, is_active |-> v.value.isActive])
         /\ lastOp' = Response("webhook_update", id, body, 200, NoRow, <<>>)
         /\ UNCHANGED <<now, nextId, jobs, cache, nextWebhookId, everCompleted>>

\* DELETE /api/webhooks/:id
DeleteWebhook(id) ==
    IF id \notin DOMAIN webhooks
    THEN /\ lastOp' = Response("webhook_delete", id, NoBody, 404, NoRow, <<>>)
         /\ UNCHANGED <<now, nextId, jobs, cache, nextWebhookId, webhooks, everCompleted>>
    ELSE /\ webhooks' = Remove(webhooks, id)
         /\ lastOp' = Response("webhook_delete", id, NoBody, 200, NoRow, <<>>)
         /\ UNCHANGED <<now, nextId, jobs, cache, nextWebhookId, everCompleted>>

\* the URL of the webhooks registered where the URL plays no part
HookUrl == [scheme |-> "https", rest |-> "//hooks.example/job"]

\* POST /api/webhooks with a valid URL
RegisterWebhook(events, isActive, maxWebhooks) ==
    RegisterWebhookBody([url |-> HookUrl, events |-> events, isActive |-> isActive],
                        maxWebhooks)

\* the clock advances
Tick(maxClock) ==
    /\ now < maxClock
    /\ now' = now + 1
    /\ UNCHANGED <<nextId, jobs, cache, nextWebhookId, webhooks, lastOp, everCompleted>>

----------------------------------------------------------------------------
(* Specification of the job lifecycle: one request at a time, single-job *)
(* routes and the webhook registry                                        *)

\* request bodies: every subset of the fields, with valid and invalid values
BodiesOf(statuses, progresses, ttls, fields) ==
    {Restrict(full, D) : full \in [status : statuses, progress : progresses, ttl : ttls],
                         D \in SUBSET fields}

StatusInputs == {"pending", "completed"}
ProgressInputs == {100}
BadProgressInputs == {-1, 101}
TtlInputs == {2}
LifecycleBodies ==
    BodiesOf(StatusInputs, ProgressInputs, TtlInputs, {"status", "progress"})
    \cup {[progress |-> p] : p \in BadProgressInputs}

EventSetInputs == {{"status_change"}, {"progress_update"}}

IdInputs(maxJobs) == 1 .. maxJobs

\* operations of a bulk request
BulkCreateBodies == {NoBody, [status |-> "completed"]}
BulkUpdateBodies == {NoBody, [status |-> "completed"], [progress |-> 100], [progress |-> 101]}
BulkOpInputs(maxJobs) ==
    {[operation |-> "create", data |-> b] : b \in BulkCreateBodies}
    \cup {[operation |-> "update", data |-> Spread(b, [id |-> i])] :
             b \in BulkUpdateBodies, i \in IdInputs(maxJobs)}
    \cup {[operation |-> "delete", data |-> [id |-> i]] : i \in IdInputs(maxJobs)}

SeqsUpTo(S, n) == UNION {[1 .. k -> S] : k \in 1 .. n}

InitJobs ==
    /\ envRetries = Unset
    /\ maxRetries = ConstructorMaxRetries(envRetries)
    /\ chain = NewChain
    /\ InitStore
    /\ InitReqIdle

JobsCreate == /\ \E body \in LifecycleBodies : CreateJob(body, MaxJobs)
              /\ UNCHANGED <<sideVars, passVars, auditVars, sendVars, reqVars, raceVars>>
JobsGet == /\ \E id \in IdInputs(MaxJobs) : GetJob(id)
           /\ UNCHANGED <<sideVars, passVars, auditVars, sendVars, reqVars, raceVars>>
JobsUpdate == /\ \E id \in IdInputs(MaxJobs), body \in LifecycleBodies : UpdateJob(id, body)
              /\ UNCHANGED <<sideVars, passVars, auditVars, sendVars, reqVars, raceVars>>
JobsDelete == /\ \E id \in IdInputs(MaxJobs) : DeleteJob(id)
              /\ UNCHANGED <<sideVars, passVars, auditVars, sendVars, reqVars, raceVars>>
BulkInputs == SeqsUpTo(BulkOpInputs(MaxJobs), MaxBulkOps)

JobsBulk == /\ \E ops \in BulkInputs : BulkApply(ops, MaxJobs)
            /\ UNCHANGED <<sideVars, passVars, auditVars, sendVars, reqVars, raceVars>>
JobsRegisterWebhook ==
    /\ \E events \in EventSetInputs, isActive \in BOOLEAN :
          RegisterWebhook(events, isActive, MaxWebhooks)
    /\ UNCHANGED <<sideVars, passVars, auditVars, sendVars, reqVars, raceVars>>
JobsTick == Tick(MaxClock) /\ UNCHANGED <<sideVars, passVars, auditVars, sendVars, reqVars, raceVars>>

NextJobs ==
    \/ JobsCreate
    \/ JobsGet
    \/ JobsUpdate
    \/ JobsDelete
    \/ JobsRegisterWebhook

Spec == InitJobs /\ [][NextJobs]_vars

----------------------------------------------------------------------------
(* Specification of the job lifecycle with a clock and the bulk route *)

NextTime ==
    \/ JobsCreate
    \/ JobsGet
    \/ JobsUpdate
    \/ JobsDelete
    \/ JobsBulk
    \/ JobsTick

SpecTime == InitJobs /\ [][NextTime]_vars

----------------------------------------------------------------------------
(* CleanupService.cleanupExpiredJobs *)

\* the where clause with <= in place of <
ExpiredJobs_Inclusive(table, t) ==
    {id \in DOMAIN table :
        /\ table[id].ttl # Null
        /\ table[id].ttl > 0
        /\ table[id].created_at + table[id].ttl <= t}

\* db('jobs').whereNotNull('ttl').where('ttl', '>', 0)
\*   .whereRaw("created_at + INTERVAL '1 millisecond' * ttl < ?", [now])
ExpiredJobs(table, t) ==
    {id \in DOMAIN table :
        /\ table[id].ttl # Null
        /\ table[id].ttl > 0
        /\ table[id].created_at + table[id].ttl < t}

\* cleanupExpiredJobs() without the redis.del loop
CleanupExpiredJobs_KeepCache ==
    LET jobIds == ExpiredJobs(jobs, now)
        done == [Response("sweep", 0, NoBody, 0, NoRow, <<>>)
                    EXCEPT !.at = now, !.before = jobs]
    IN  /\ jobs' = Restrict(jobs, (DOMAIN jobs) \ jobIds)
        /\ lastOp' = done
        /\ UNCHANGED <<now, nextId, cache, nextWebhookId, webhooks, everCompleted>>

\* cleanupExpiredJobs(): select, return if none, delete whereIn, redis.del each
CleanupExpiredJobs ==
    LET jobIds == ExpiredJobs(jobs, now)
        done == [Response("sweep", 0, NoBody, 0, NoRow, <<>>)
                    EXCEPT !.at = now, !.before = jobs]
    IN  IF jobIds = {}
        THEN /\ lastOp' = done
             /\ UNCHANGED <<now, nextId, jobs, cache, nextWebhookId, webhooks, everCompleted>>
        ELSE /\ jobs' = Restrict(jobs, (DOMAIN jobs) \ jobIds)
             /\ cache' = Restrict(cache, (DOMAIN cache) \ jobIds)
             /\ lastOp' = done
             /\ UNCHANGED <<now, nextId, nextWebhookId, webhooks, everCompleted>>

----------------------------------------------------------------------------
(* Specification of the expiry sweep: jobs with and without ttl, a clock *)

SweepBodies == BodiesOf({"pending"}, ProgressInputs, TtlInputs \cup {0}, {"ttl"})

SweepCreate == /\ \E body \in SweepBodies : CreateJob(body, MaxSweepJobs)
               /\ UNCHANGED <<sideVars, passVars, auditVars, sendVars, reqVars, raceVars>>
SweepGet == /\ \E id \in IdInputs(MaxSweepJobs) : GetJob(id)
            /\ UNCHANGED <<sideVars, passVars, auditVars, sendVars, reqVars, raceVars>>
SweepTick == Tick(MaxTime) /\ UNCHANGED <<sideVars, passVars, auditVars, sendVars, reqVars, raceVars>>
SweepExpired == CleanupExpiredJobs /\ UNCHANGED <<sideVars, passVars, auditVars, sendVars, reqVars, raceVars>>

NextSweep ==
    \/ SweepCreate
    \/ SweepGet
    \/ SweepTick
    \/ SweepExpired

SpecSweep == InitJobs /\ [][NextSweep]_vars

----------------------------------------------------------------------------
(* Request handlers step by step: every await is a step *)

RECURSIVE SortedSeq(_)
\* the rows of a select in id order
SortedSeq(S) ==
    IF S = {} THEN <<>>
    ELSE LET m == CHOOSE x \in S : \A y \in S : x <= y
         IN  <<m>> \o SortedSeq(S \ {m})

\* the position Array.prototype.slice works with: a negative index counts
\* from the end of the array, and both ends are clamped to the array
SliceIndex(k, len) ==
    IF k < 0 THEN (IF len + k < 0 THEN 0 ELSE len + k)
    ELSE IF k > len THEN len ELSE k

\* webhooks.slice(i, i + this.batchSize)
BatchOf(list, i, size) ==
    {list[k] : k \in {k \in 1 .. Len(list) :
                         /\ k > SliceIndex(i, Len(list))
                         /\ k <= SliceIndex(i + size, Len(list))}}

\* every remaining webhook mapped to a sendWebhook call at once
StartBatch_Rest(list, i, size) ==
    [w \in {list[k] : k \in {k \in 1 .. Len(list) : k > i}} |-> NewChain]

\* batch.map(webhook => this.sendWebhook(webhook.url, payload, webhook.headers))
StartBatch(list, i, size) == [w \in BatchOf(list, i, size) |-> NewChain]

\* where the handler goes on after a triggerWebhooks call has returned
AfterTrigger(todo) == IF todo = <<>> THEN "respond" ELSE "trigger"

\* the event types PUT /api/jobs/:id triggers, in order
UpdateEventTypes(body, currentJob) ==
    (IF Has(body, "status") /\ body.status # currentJob.status
     THEN <<"status_change">> ELSE <<>>)
    \o
    (IF Has(body, "progress") /\ body.progress # currentJob.progress
     THEN <<"progress_update">> ELSE <<>>)

\* POST /api/jobs up to the insert
ReqCreate(body) ==
    /\ req.pc = "idle"
    /\ reqCount < MaxRequests
    /\ reqCount' = reqCount + 1
    /\ LET v == createJobSchema(body) IN
       IF v.error
       THEN /\ lastOp' = Response("create", 0, body, 400, NoRow, <<>>)
            /\ UNCHANGED req
       ELSE /\ nextId <= MaxJobs
            /\ req' = [IdleReq EXCEPT !.pc = "insert", !.op = "create",
                                      !.body = v.value, !.code = 201]
            /\ UNCHANGED lastOp
    /\ UNCHANGED <<now, nextId, jobs, cache, nextWebhookId, webhooks, everCompleted,
                   batchSize, fan>>

\* await db('jobs').insert(jobData).returning('*')
ReqInsert ==
    /\ req.pc = "insert"
    /\ LET jobData == Spread([id |-> nextId],
                        Spread(req.body, [created_at |-> now, updated_at |-> now]))
           job == InsertedRow(jobData)
       IN  /\ jobs' = Put(jobs, job.id, job)
           /\ req' = [req EXCEPT !.pc = "cache", !.id = job.id, !.updatedJob = job]
           /\ everCompleted' = NoteCompleted(jobs')
    /\ nextId' = nextId + 1
    /\ UNCHANGED <<now, cache, nextWebhookId, webhooks, lastOp,
                   batchSize, fan, reqCount>>

\* PUT /api/jobs/:id up to the select of the current row
ReqUpdate(id, body) ==
    /\ req.pc = "idle"
    /\ reqCount < MaxRequests
    /\ reqCount' = reqCount + 1
    /\ LET v == updateJobSchema(body) IN
       IF v.error
       THEN /\ lastOp' = Response("update", id, body, 400, NoRow, <<>>)
            /\ UNCHANGED req
       ELSE /\ req' = [IdleReq EXCEPT !.pc = "read", !.op = "update",
                                      !.id = id, !.body = v.value, !.code = 200]
            /\ UNCHANGED lastOp
    /\ UNCHANGED <<now, nextId, jobs, cache, nextWebhookId, webhooks, everCompleted,
                   batchSize, fan>>

\* await db('jobs').where('id', id).select('*'); 404 if there is no row
ReqRead ==
    /\ req.pc = "read"
    /\ IF req.id \in DOMAIN jobs
       THEN req' = [req EXCEPT !.pc = "write", !.currentJob = jobs[req.id]]
       ELSE req' = [req EXCEPT !.pc = "respond", !.code = 404]
    /\ UNCHANGED <<now, nextId, jobs, cache, nextWebhookId, webhooks, lastOp,
                   everCompleted, batchSize, fan, reqCount>>

\* await db('jobs').where('id', id).update(updateData).returning('*')
ReqWrite ==
    /\ req.pc = "write"
    /\ req.id \in DOMAIN jobs
    /\ LET updatedJob == UpdatedRow(jobs[req.id],
                            PutUpdateData(req.body, req.currentJob, now))
       IN  /\ jobs' = Put(jobs, req.id, updatedJob)
           /\ req' = [req EXCEPT !.pc = "cache", !.updatedJob = updatedJob]
           /\ everCompleted' = NoteCompleted(jobs')
    /\ UNCHANGED <<now, nextId, cache, nextWebhookId, webhooks, lastOp,
                   batchSize, fan, reqCount>>

\* await redis.set(`job:${job.id}`, job, 3600) / await redis.del(`job:${id}`)
ReqCache ==
    /\ req.pc = "cache"
    /\ LET todo == IF req.op = "create" THEN <<"status_change">>
                   ELSE UpdateEventTypes(req.body, req.currentJob)
       IN  /\ cache' = IF req.op = "create"
                       THEN Put(cache, req.id, req.updatedJob)
                       ELSE Remove(cache, req.id)
           /\ req' = [req EXCEPT !.pc = AfterTrigger(todo), !.todo = todo]
    /\ UNCHANGED <<now, nextId, jobs, nextWebhookId, webhooks, lastOp,
                   everCompleted, batchSize, fan, reqCount>>

\* the errors raised inside triggerWebhooks: by the webhook query, by
\* createJobPayload
TriggerFaults == {"none", "lookup", "payload"}

\* triggerWebhooks without its try/catch: the error reaches the catch of the
\* handler, which answers 500
ReqTrigger_NoCatch(fault) ==
    /\ req.pc = "trigger"
    /\ fault # "none"
    /\ req' = [req EXCEPT !.pc = "respond", !.code = 500, !.todo = <<>>,
                          !.emitErrors = @ \cup {fault}]
    /\ UNCHANGED <<now, nextId, jobs, cache, nextWebhookId, webhooks, lastOp,
                   everCompleted, batchSize, reqCount, fan>>

\* await triggerWebhooks(...): the webhook query; with rows, the payload is
\* built and sendWebhooks starts its first batch, without rows the call
\* returns; an error of the query or of the payload is caught and logged
ReqTrigger(fault) ==
    /\ req.pc = "trigger"
    /\ LET d == triggerWebhooks(webhooks, req.updatedJob, Head(req.todo),
                                req.op = "update")
       IN  IF fault = "lookup" \/ (fault = "payload" /\ d.sentTo # {})
           THEN /\ req' = [req EXCEPT !.pc = AfterTrigger(Tail(req.todo)),
                                      !.todo = Tail(@),
                                      !.events = Append(@, [d EXCEPT !.sentTo = {}]),
                                      !.emitErrors = @ \cup {fault}]
                /\ UNCHANGED fan
           ELSE IF d.sentTo = {}
           THEN /\ fault = "none"
                /\ req' = [req EXCEPT !.pc = AfterTrigger(Tail(req.todo)),
                                      !.todo = Tail(@),
                                      !.events = Append(@, d)]
                /\ UNCHANGED fan
           ELSE /\ fault = "none"
                /\ req' = [req EXCEPT !.pc = "sending", !.events = Append(@, d)]
                /\ fan' = [IdleFan EXCEPT !.pc = "batch",
                                          !.list = SortedSeq(d.sentTo),
                                          !.chains = StartBatch(SortedSeq(d.sentTo), 0, batchSize)]
    /\ UNCHANGED <<now, nextId, jobs, cache, nextWebhookId, webhooks, lastOp,
                   everCompleted, batchSize, reqCount>>

\* one HTTP request of a delivery of the current batch
FanRequest(w, reply) ==
    /\ fan.pc = "batch"
    /\ w \in DOMAIN fan.chains
    /\ fan.chains[w].pc = "request"
    /\ fan' = [fan EXCEPT !.chains[w] = sendWebhook(@, reply, maxRetries)]
    /\ UNCHANGED <<storeVars, batchSize, req, reqCount>>

\* the backoff timer of a delivery of the current batch fires
FanBackoff(w) ==
    /\ fan.pc = "batch"
    /\ w \in DOMAIN fan.chains
    /\ fan.chains[w].pc = "backoff"
    /\ fan' = [fan EXCEPT !.chains[w] = RetryAfterBackoff(@)]
    /\ UNCHANGED <<storeVars, batchSize, req, reqCount>>

\* await Promise.allSettled(batchPromises) resolves; after the last batch
\* sendWebhooks and triggerWebhooks return to the handler
FanSettled ==
    /\ fan.pc = "batch"
    /\ \A w \in DOMAIN fan.chains : fan.chains[w].pc = "done"
    /\ LET batchResults == [k \in 1 .. Cardinality(DOMAIN fan.chains) |->
                               fan.chains[fan.list[fan.i + k]]]
           failed == IF \E w \in DOMAIN fan.chains : ~fan.chains[w].value
                     THEN {"delivery"} ELSE {}
       IN  IF fan.i + batchSize < Len(fan.list)
           THEN /\ fan' = [fan EXCEPT !.pc = "pause", !.results = @ \o batchResults]
                /\ req' = [req EXCEPT !.emitErrors = @ \cup failed]
           ELSE /\ fan' = IdleFan
                /\ req' = [req EXCEPT !.pc = AfterTrigger(Tail(req.todo)),
                                      !.todo = Tail(@),
                                      !.emitErrors = @ \cup failed]
    /\ UNCHANGED <<storeVars, batchSize, reqCount>>

\* the 100 ms pause between batches ends and the next batch starts
FanPause ==
    /\ fan.pc = "pause"
    /\ fan' = [fan EXCEPT !.pc = "batch", !.i = @ + batchSize,
                          !.chains = StartBatch(fan.list, fan.i + batchSize, batchSize)]
    /\ UNCHANGED <<storeVars, batchSize, req, reqCount>>

\* res.json(...) / res.status(...).json(...)
ReqRespond ==
    /\ req.pc = "respond"
    /\ lastOp' = [Response(req.op, req.id, req.body, req.code, req.currentJob, req.events)
                     EXCEPT !.emitErrors = req.emitErrors]
    /\ req' = IdleReq
    /\ UNCHANGED <<now, nextId, jobs, cache, nextWebhookId, webhooks,
                   everCompleted, batchSize, fan, reqCount>>

----------------------------------------------------------------------------
(* Specification of one request at a time with its webhook deliveries *)

BatchEnvValues == {Unset, 1}
ReqBodies ==
    BodiesOf({"completed"}, ProgressInputs, TtlInputs, {"status", "progress"})
        \cup {[progress |-> 101]}
ReqCreateBodies == {NoBody, [progress |-> 101]}
FanReplies == {r \in Replies : r.status \in {200, 404, 503}}

InitReq ==
    /\ envRetries = 1
    /\ maxRetries = ConstructorMaxRetries(envRetries)
    /\ chain = NewChain
    /\ InitStore
    /\ batchSize \in {ConstructorBatchSize(e) : e \in BatchEnvValues}
    /\ req = IdleReq
    /\ fan = IdleFan
    /\ reqCount = 0
    /\ procs = [p \in 1 .. MaxProcs |-> IdleProc]
    /\ deletedDone = {}

ReqRegisterWebhook ==
    /\ req.pc = "idle"
    /\ \E events \in EventSetInputs, isActive \in BOOLEAN :
          RegisterWebhook(events, isActive, MaxReqWebhooks)
    /\ UNCHANGED <<sideVars, passVars, auditVars, sendVars, reqVars, raceVars>>

ReqCreateStep == (\E body \in ReqCreateBodies : ReqCreate(body)) /\ UNCHANGED <<sideVars, passVars, auditVars, sendVars, raceVars>>
ReqInsertStep == ReqInsert /\ UNCHANGED <<sideVars, passVars, auditVars, sendVars, raceVars>>
ReqUpdateStep ==
    /\ \E id \in IdInputs(MaxJobs), body \in ReqBodies : ReqUpdate(id, body)
    /\ UNCHANGED <<sideVars, passVars, auditVars, sendVars, raceVars>>
ReqReadStep == ReqRead /\ UNCHANGED <<sideVars, passVars, auditVars, sendVars, raceVars>>
ReqWriteStep == ReqWrite /\ UNCHANGED <<sideVars, passVars, auditVars, sendVars, raceVars>>
ReqCacheStep == ReqCache /\ UNCHANGED <<sideVars, passVars, auditVars, sendVars, raceVars>>
ReqTriggerStep ==
    /\ \E fault \in TriggerFaults : ReqTrigger(fault)
    /\ UNCHANGED <<sideVars, passVars, auditVars, sendVars, raceVars>>
FanRequestStep ==
    /\ \E w \in DOMAIN fan.chains, reply \in FanReplies : FanRequest(w, reply)
    /\ UNCHANGED <<sideVars, passVars, auditVars, sendVars, raceVars>>
FanBackoffStep == (\E w \in DOMAIN fan.chains : FanBackoff(w)) /\ UNCHANGED <<sideVars, passVars, auditVars, sendVars, raceVars>>
FanSettledStep == FanSettled /\ UNCHANGED <<sideVars, passVars, auditVars, sendVars, raceVars>>
FanPauseStep == FanPause /\ UNCHANGED <<sideVars, passVars, auditVars, sendVars, raceVars>>
ReqRespondStep == ReqRespond /\ UNCHANGED <<sideVars, passVars, auditVars, sendVars, raceVars>>

NextReq ==
    \/ ReqRegisterWebhook
    \/ ReqCreateStep
    \/ ReqInsertStep
    \/ ReqUpdateStep
    \/ ReqReadStep
    \/ ReqWriteStep
    \/ ReqCacheStep
    \/ ReqTriggerStep
    \/ FanRequestStep
    \/ FanBackoffStep
    \/ FanSettledStep
    \/ FanPauseStep
    \/ ReqRespondStep

SpecReq == InitReq /\ [][NextReq]_vars

----------------------------------------------------------------------------
(* The expiry sweep with store and cache errors *)

\* what goes wrong in a pass: the select throws, the delete throws, the
\* cache is unavailable for the redis.del calls
PassFaults == {"none", "select", "delete", "cache"}

SweepRecord(fault) ==
    [Response("sweep", 0, NoBody, 0, NoRow, <<>>)
        EXCEPT !.at = now, !.before = jobs,
               !.faults = IF fault = "none" THEN {} ELSE {fault}]

\* cleanupExpiredJobs() without its try/catch: the exception rejects the
\* promise the scheduler holds
CleanupPass_NoCatch(fault) ==
    /\ fault \in {"select", "delete"}
    /\ fault = "delete" => ExpiredJobs(jobs, now) # {}
    /\ failedPasses < MaxFailedPasses
    /\ failedPasses' = failedPasses + 1
    /\ lastOp' = [SweepRecord(fault) EXCEPT !.code = 500]
    /\ UNCHANGED <<now, nextId, jobs, cache, nextWebhookId, webhooks, everCompleted,
                   deliveries>>

\* cleanupExpiredJobs() with an error at one of its calls: an exception of
\* the select or the delete ends the pass in the catch, which logs it; an
\* unavailable cache makes redis.del return false and the pass goes on
CleanupPass(fault) ==
    LET jobIds == ExpiredJobs(jobs, now) IN
    IF fault = "select" \/ (fault = "delete" /\ jobIds # {})
    THEN /\ failedPasses < MaxFailedPasses
         /\ failedPasses' = failedPasses + 1
         /\ lastOp' = SweepRecord(fault)
         /\ UNCHANGED <<now, nextId, jobs, cache, nextWebhookId, webhooks, everCompleted,
                        deliveries>>
    ELSE IF jobIds = {}
    THEN /\ fault = "none"
         /\ lastOp' = SweepRecord(fault)
         /\ UNCHANGED <<now, nextId, jobs, cache, nextWebhookId, webhooks, everCompleted,
                        deliveries, failedPasses>>
    ELSE /\ fault \in {"none", "cache"}
         /\ jobs' = Restrict(jobs, (DOMAIN jobs) \ jobIds)
         /\ cache' = IF fault = "cache" THEN cache
                     ELSE Restrict(cache, (DOMAIN cache) \ jobIds)
         /\ lastOp' = SweepRecord(fault)
         /\ UNCHANGED <<now, nextId, nextWebhookId, webhooks, everCompleted,
                        deliveries, failedPasses>>

----------------------------------------------------------------------------
(* Specification of the expiry sweep with errors *)

FaultyCreate == /\ \E body \in SweepBodies : CreateJob(body, MaxSweepJobs)
                /\ UNCHANGED <<sideVars, passVars, auditVars, sendVars, reqVars, raceVars>>
FaultyTick == Tick(MaxTime) /\ UNCHANGED <<sideVars, passVars, auditVars, sendVars, reqVars, raceVars>>
FaultyPass == /\ \E fault \in PassFaults : CleanupPass(fault)
              /\ UNCHANGED <<sideVars, passVars, sendVars, reqVars, raceVars>>

NextFaulty ==
    \/ FaultyCreate
    \/ FaultyTick
    \/ FaultyPass

SpecFaulty == InitJobs /\ [][NextFaulty]_vars

----------------------------------------------------------------------------
(* Specification of the removals: delete, bulk delete and the expiry sweep *)
(* with registered webhooks                                                *)

RemoveBodies == {NoBody, [ttl |-> 1]}
RemoveBulkOps ==
    {[operation |-> "create", data |-> NoBody]}
    \cup {[operation |-> "delete", data |-> [id |-> i]] : i \in IdInputs(MaxJobs)}
RemoveBulkInputs == SeqsUpTo(RemoveBulkOps, MaxBulkOps)

RemoveCreate == /\ \E body \in RemoveBodies : CreateJob(body, MaxJobs)
                /\ UNCHANGED <<sideVars, passVars, auditVars, sendVars, reqVars, raceVars>>
RemoveDelete == /\ \E id \in IdInputs(MaxJobs) : DeleteJob(id)
                /\ UNCHANGED <<sideVars, passVars, auditVars, sendVars, reqVars, raceVars>>
RemoveBulk == /\ \E ops \in RemoveBulkInputs : BulkApply(ops, MaxJobs)
              /\ UNCHANGED <<sideVars, passVars, auditVars, sendVars, reqVars, raceVars>>
RemoveRegisterWebhook ==
    /\ \E isActive \in BOOLEAN :
          RegisterWebhook({"status_change", "progress_update"}, isActive, MaxWebhooks)
    /\ UNCHANGED <<sideVars, passVars, auditVars, sendVars, reqVars, raceVars>>
RemoveTick == Tick(MaxClock + 1) /\ UNCHANGED <<sideVars, passVars, auditVars, sendVars, reqVars, raceVars>>
RemoveExpired == CleanupExpiredJobs /\ UNCHANGED <<sideVars, passVars, auditVars, sendVars, reqVars, raceVars>>

NextRemove ==
    \/ RemoveCreate
    \/ RemoveDelete
    \/ RemoveBulk
    \/ RemoveRegisterWebhook
    \/ RemoveTick
    \/ RemoveExpired

SpecRemove == InitJobs /\ [][NextRemove]_vars

----------------------------------------------------------------------------
(* The cleanup passes step by step: every await is a step.  A run of kind *)
(* "expired" is cleanupExpiredJobs(), a run of kind "full" is             *)
(* performCleanup() of a started service.                                 *)

passFrame ==
    <<now, nextId, nextWebhookId, webhooks, lastOp, everCompleted, deliveries,
      failedPasses>>

\* where a run goes on after cleanupExpiredJobs() has returned
AfterExpired(kind) == IF kind = "full" THEN "purge" ELSE "done"

LeastOf(S) == CHOOSE k \in S : \A j \in S : k <= j

\* the cron callback fires; const now = new Date()
PassStart(p, kind) ==
    /\ passes[p].pc = "idle"
    /\ snap.active => snap.kind = kind
    /\ passes' = [passes EXCEPT ![p] = [IdlePass EXCEPT !.pc = "select", !.kind = kind,
                                                        !.at = now]]
    /\ snap' = IF snap.active THEN snap
               ELSE [active |-> TRUE, kind |-> kind, at |-> now, jobs |-> jobs,
                     cache |-> cache]
    /\ UNCHANGED <<passFrame, jobs, cache>>

\* const expiredJobs = await db('jobs')...select(...); return if none
PassSelect(p) ==
    /\ passes[p].pc = "select"
    /\ LET ids == ExpiredJobs(jobs, passes[p].at) IN
       passes' = [passes EXCEPT ![p] =
                    IF ids = {} THEN [@ EXCEPT !.pc = AfterExpired(passes[p].kind)]
                    ELSE [@ EXCEPT !.pc = "delete", !.ids = ids]]
    /\ UNCHANGED <<passFrame, jobs, cache, snap>>

\* the delete of every row of the table
PassDelete_All(p) ==
    /\ passes[p].pc = "delete"
    /\ jobs' = EmptyTable
    /\ passes' = [passes EXCEPT ![p] = [@ EXCEPT !.pc = "cacheDel", !.keys = passes[p].ids]]
    /\ UNCHANGED <<passFrame, cache, snap>>

\* await db('jobs').whereIn('id', jobIds).del()
PassDelete(p) ==
    /\ passes[p].pc = "delete"
    /\ jobs' = Restrict(jobs, (DOMAIN jobs) \ passes[p].ids)
    /\ passes' = [passes EXCEPT ![p] = [@ EXCEPT !.pc = "cacheDel", !.keys = passes[p].ids]]
    /\ UNCHANGED <<passFrame, cache, snap>>

\* for (const jobId of jobIds) { await redis.del(`job:${jobId}`); }
PassCacheDel(p) ==
    /\ passes[p].pc = "cacheDel"
    /\ LET k == LeastOf(passes[p].keys) IN
       /\ cache' = Remove(cache, k)
       /\ passes' = [passes EXCEPT ![p] =
                       IF passes[p].keys = {k}
                       THEN [@ EXCEPT !.pc = AfterExpired(passes[p].kind), !.keys = {}]
                       ELSE [@ EXCEPT !.keys = @ \ {k}]]
    /\ UNCHANGED <<passFrame, jobs, snap>>

\* await this.cleanupOldWebhookDeliveries(): no row reaches the age of 30
\* days within the clock values of the model
PassPurge(p) ==
    /\ passes[p].pc = "purge"
    /\ passes' = [passes EXCEPT ![p] = [@ EXCEPT !.pc = "keys"]]
    /\ UNCHANGED <<passFrame, jobs, cache, snap>>

\* const keys = await client.keys('job:*'); return if none
PassKeys(p) ==
    /\ passes[p].pc = "keys"
    /\ passes' = [passes EXCEPT ![p] =
                    IF DOMAIN cache = {} THEN [@ EXCEPT !.pc = "done"]
                    ELSE [@ EXCEPT !.pc = "check", !.keys = DOMAIN cache]]
    /\ UNCHANGED <<passFrame, jobs, cache, snap>>

\* const [job] = await db('jobs').where('id', jobId).select('id')
PassCheck(p) ==
    /\ passes[p].pc = "check"
    /\ LET k == LeastOf(passes[p].keys) IN
       passes' = [passes EXCEPT ![p] =
                    IF k \notin DOMAIN jobs THEN [@ EXCEPT !.pc = "staleDel"]
                    ELSE IF passes[p].keys = {k} THEN [@ EXCEPT !.pc = "done", !.keys = {}]
                    ELSE [@ EXCEPT !.keys = @ \ {k}]]
    /\ UNCHANGED <<passFrame, jobs, cache, snap>>

\* await redis.del(key) of a key whose job has no row
PassStaleDel(p) ==
    /\ passes[p].pc = "staleDel"
    /\ LET k == LeastOf(passes[p].keys) IN
       /\ cache' = Remove(cache, k)
       /\ passes' = [passes EXCEPT ![p] =
                       IF passes[p].keys = {k} THEN [@ EXCEPT !.pc = "done", !.keys = {}]
                       ELSE [@ EXCEPT !.pc = "check", !.keys = @ \ {k}]]
    /\ UNCHANGED <<passFrame, jobs, snap>>

\* the runs that were started have returned
PassesReturn ==
    /\ snap.active
    /\ \A p \in Passes : passes[p].pc \in {"idle", "done"}
    /\ \E p \in Passes : passes[p].pc = "done"
    /\ passes' = [p \in Passes |-> IdlePass]
    /\ snap' = NoSnap
    /\ UNCHANGED <<passFrame, jobs, cache>>

----------------------------------------------------------------------------
(* Specification of two runs of a cleanup pass at the same time *)

PassKinds == {"expired", "full"}

TwiceCreate == /\ ~snap.active
               /\ \E body \in RemoveBodies : CreateJob(body, MaxSweepJobs)
               /\ UNCHANGED <<sideVars, passVars, auditVars, sendVars, reqVars, raceVars>>
TwiceTick == /\ ~snap.active
             /\ Tick(MaxClock + 1)
             /\ UNCHANGED <<sideVars, passVars, auditVars, sendVars, reqVars, raceVars>>
\* a pass during which the cache is unavailable leaves entries without row
TwiceCacheDown == /\ ~snap.active
                  /\ CleanupPass("cache")
                  /\ UNCHANGED <<sideVars, passVars, sendVars, reqVars, raceVars>>
TwiceStart == /\ \E p \in Passes, kind \in PassKinds : PassStart(p, kind)
              /\ UNCHANGED <<sideVars, sendVars, reqVars, raceVars>>
TwiceSelect == (\E p \in Passes : PassSelect(p)) /\ UNCHANGED <<sideVars, sendVars, reqVars, raceVars>>
TwiceDelete == (\E p \in Passes : PassDelete(p)) /\ UNCHANGED <<sideVars, sendVars, reqVars, raceVars>>
TwiceCacheDel == (\E p \in Passes : PassCacheDel(p)) /\ UNCHANGED <<sideVars, sendVars, reqVars, raceVars>>
TwicePurge == (\E p \in Passes : PassPurge(p)) /\ UNCHANGED <<sideVars, sendVars, reqVars, raceVars>>
TwiceKeys == (\E p \in Passes : PassKeys(p)) /\ UNCHANGED <<sideVars, sendVars, reqVars, raceVars>>
TwiceCheck == (\E p \in Passes : PassCheck(p)) /\ UNCHANGED <<sideVars, sendVars, reqVars, raceVars>>
TwiceStaleDel == (\E p \in Passes : PassStaleDel(p)) /\ UNCHANGED <<sideVars, sendVars, reqVars, raceVars>>
TwiceReturn == PassesReturn /\ UNCHANGED <<sideVars, sendVars, reqVars, raceVars>>

NextTwice ==
    \/ TwiceCreate
    \/ TwiceTick
    \/ TwiceCacheDown
    \/ TwiceStart
    \/ TwiceSelect
    \/ TwiceDelete
    \/ TwiceCacheDel
    \/ TwicePurge
    \/ TwiceKeys
    \/ TwiceCheck
    \/ TwiceStaleDel
    \/ TwiceReturn

SpecTwice == InitJobs /\ [][NextTwice]_vars

----------------------------------------------------------------------------
(* Specification of the bulk route: lists of operations, store errors *)

\* the updates and deletes of the lists address the job created first
BulkTargets == {1}
BulkListOps ==
    {[operation |-> "create", data |-> NoBody]}
    \cup {[operation |-> "update", data |-> [id |-> i, progress |-> 100]] :
             i \in BulkTargets}
    \cup {[operation |-> "delete", data |-> [id |-> i]] : i \in BulkTargets}
BulkLists == SeqsUpTo(BulkListOps, MaxBulkLen)

\* no store error, or one at some position of the list
FaultInputs(ops) == {{}} \cup {{k} : k \in 1 .. Len(ops)}

BulkListApply ==
    /\ \E ops \in BulkLists : \E faults \in FaultInputs(ops) :
          BulkApplyFaulty(ops, faults, MaxJobs)
    /\ UNCHANGED <<sideVars, passVars, auditVars, sendVars, reqVars, raceVars>>
BulkListGet == /\ \E id \in IdInputs(MaxJobs) : GetJob(id)
               /\ UNCHANGED <<sideVars, passVars, auditVars, sendVars, reqVars, raceVars>>

BulkListRegisterWebhook ==
    /\ RegisterWebhook({"status_change"}, TRUE, MaxWebhooks)
    /\ UNCHANGED <<sideVars, passVars, auditVars, sendVars, reqVars, raceVars>>

NextBulk ==
    \/ BulkListApply
    \/ BulkListGet
    \/ BulkListRegisterWebhook

SpecBulk == InitJobs /\ [][NextBulk]_vars

----------------------------------------------------------------------------
(* Specification of the webhook registry: register, update, delete *)

SchemeInputs == {"http", "https", "HTTP", "ftp", "javascript", ""}
UrlInputs == [scheme : SchemeInputs, rest : {"//hooks.example/job"}]
HookBodies ==
    {Restrict(full, D) :
        full \in [url : UrlInputs, events : {{"status_change"}, {}}, isActive : {FALSE}],
        D \in {{"url", "events"}, {"events"}, {"url", "events", "isActive"}}}

HooksRegister ==
    /\ \E body \in HookBodies : RegisterWebhookBody(body, MaxWebhooks)
    /\ UNCHANGED <<sideVars, passVars, auditVars, sendVars, reqVars, raceVars>>
HooksUpdate ==
    /\ \E id \in 1 .. MaxWebhooks, body \in HookBodies : UpdateWebhook(id, body)
    /\ UNCHANGED <<sideVars, passVars, auditVars, sendVars, reqVars, raceVars>>
HooksDelete ==
    /\ \E id \in 1 .. MaxWebhooks : DeleteWebhook(id)
    /\ UNCHANGED <<sideVars, passVars, auditVars, sendVars, reqVars, raceVars>>

NextHooks ==
    \/ HooksRegister
    \/ HooksUpdate
    \/ HooksDelete

SpecHooks == InitJobs /\ [][NextHooks]_vars

----------------------------------------------------------------------------
(* GET and DELETE /api/jobs/:id running concurrently: every await is a step *)

raceFrame == <<now, nextId, nextWebhookId, webhooks, lastOp, everCompleted>>

\* a GET /api/jobs/:id request arrives
GetStart(p, id) ==
    /\ procs[p].pc = "idle"
    /\ procs' = [procs EXCEPT ![p] = [IdleProc EXCEPT !.pc = "cacheGet", !.op = "get",
                                         !.id = id, !.afterDelete = id \in deletedDone]]
    /\ UNCHANGED <<raceFrame, jobs, cache, deletedDone>>

\* let job = await redis.get(`job:${id}`); a hit is answered at once
GetCache(p) ==
    /\ procs[p].pc = "cacheGet"
    /\ procs' = [procs EXCEPT ![p] =
                    IF procs[p].id \in DOMAIN cache
                    THEN [@ EXCEPT !.pc = "done", !.job = cache[procs[p].id], !.code = 200]
                    ELSE [@ EXCEPT !.pc = "dbSelect"]]
    /\ UNCHANGED <<raceFrame, jobs, cache, deletedDone>>

\* const [result] = await db('jobs').where('id', id).select('*'); 404 if none
GetSelect(p) ==
    /\ procs[p].pc = "dbSelect"
    /\ procs' = [procs EXCEPT ![p] =
                    IF procs[p].id \in DOMAIN jobs
                    THEN [@ EXCEPT !.pc = "cacheSet", !.job = jobs[procs[p].id]]
                    ELSE [@ EXCEPT !.pc = "done", !.code = 404]]
    /\ UNCHANGED <<raceFrame, jobs, cache, deletedDone>>

\* await redis.set(`job:${id}`, job, 3600); res.json
GetSet(p) ==
    /\ procs[p].pc = "cacheSet"
    /\ cache' = Put(cache, procs[p].id, procs[p].job)
    /\ procs' = [procs EXCEPT ![p] = [@ EXCEPT !.pc = "done", !.code = 200]]
    /\ UNCHANGED <<raceFrame, jobs, deletedDone>>

\* a DELETE /api/jobs/:id request arrives
DeleteStart(p, id) ==
    /\ procs[p].pc = "idle"
    /\ procs' = [procs EXCEPT ![p] = [IdleProc EXCEPT !.pc = "dbDel", !.op = "delete",
                                                      !.id = id]]
    /\ UNCHANGED <<raceFrame, jobs, cache, deletedDone>>

\* const deletedCount = await db('jobs').where('id', id).del(); 404 if 0
DeleteDb(p) ==
    /\ procs[p].pc = "dbDel"
    /\ IF procs[p].id \in DOMAIN jobs
       THEN /\ jobs' = Remove(jobs, procs[p].id)
            /\ procs' = [procs EXCEPT ![p] = [@ EXCEPT !.pc = "cacheDel"]]
       ELSE /\ procs' = [procs EXCEPT ![p] = [@ EXCEPT !.pc = "done", !.code = 404]]
            /\ UNCHANGED jobs
    /\ UNCHANGED <<raceFrame, cache, deletedDone>>

\* await redis.del(`job:${id}`); res.json
DeleteCache(p) ==
    /\ procs[p].pc = "cacheDel"
    /\ cache' = Remove(cache, procs[p].id)
    /\ procs' = [procs EXCEPT ![p] = [@ EXCEPT !.pc = "done", !.code = 200]]
    /\ deletedDone' = deletedDone \cup {procs[p].id}
    /\ UNCHANGED <<raceFrame, jobs>>

\* the handler has returned
HandlerReturn(p) ==
    /\ procs[p].pc = "done"
    /\ procs' = [procs EXCEPT ![p] = IdleProc]
    /\ UNCHANGED <<raceFrame, jobs, cache, deletedDone>>

\* the 3600 s expiry given to redis.set elapses for one key
CacheExpire(id) ==
    /\ id \in DOMAIN cache
    /\ cache' = Remove(cache, id)
    /\ UNCHANGED <<raceFrame, jobs, procs, deletedDone>>

----------------------------------------------------------------------------
(* Specification of reads racing with deletes *)

Procs == 1 .. MaxProcs

RaceCreate ==
    /\ CreateJob(NoBody, MaxJobs)
    /\ UNCHANGED <<sideVars, passVars, auditVars, sendVars, reqVars, raceVars>>
RaceGetStart ==
    /\ \E p \in Procs, id \in IdInputs(MaxJobs) : GetStart(p, id)
    /\ UNCHANGED <<sideVars, passVars, auditVars, sendVars, reqVars>>
RaceGetCache == (\E p \in Procs : GetCache(p)) /\ UNCHANGED <<sideVars, passVars, auditVars, sendVars, reqVars>>
RaceGetSelect == (\E p \in Procs : GetSelect(p)) /\ UNCHANGED <<sideVars, passVars, auditVars, sendVars, reqVars>>
RaceGetSet == (\E p \in Procs : GetSet(p)) /\ UNCHANGED <<sideVars, passVars, auditVars, sendVars, reqVars>>
RaceDeleteStart ==
    /\ \E p \in Procs, id \in IdInputs(MaxJobs) : DeleteStart(p, id)
    /\ UNCHANGED <<sideVars, passVars, auditVars, sendVars, reqVars>>
RaceDeleteDb == (\E p \in Procs : DeleteDb(p)) /\ UNCHANGED <<sideVars, passVars, auditVars, sendVars, reqVars>>
RaceDeleteCache == (\E p \in Procs : DeleteCache(p)) /\ UNCHANGED <<sideVars, passVars, auditVars, sendVars, reqVars>>
RaceReturn == (\E p \in Procs : HandlerReturn(p)) /\ UNCHANGED <<sideVars, passVars, auditVars, sendVars, reqVars>>
RaceCacheExpire ==
    /\ \E id \in IdInputs(MaxJobs) : CacheExpire(id)
    /\ UNCHANGED <<sideVars, passVars, auditVars, sendVars, reqVars>>

NextRace ==
    \/ RaceCreate
    \/ RaceGetStart
    \/ RaceGetCache
    \/ RaceGetSelect
    \/ RaceGetSet
    \/ RaceDeleteStart
    \/ RaceDeleteDb
    \/ RaceDeleteCache
    \/ RaceReturn
    \/ RaceCacheExpire

SpecRace == InitJobs /\ [][NextRace]_vars

----------------------------------------------------------------------------
(* The cache wrapper (utils/redis.js) and the handlers on top of it *)

\* redis.get() that reads the key without asking isAvailable()
redisGet_NoCheck(c, ready, id) == IF id \in DOMAIN c THEN c[id] ELSE NoRow

\* redis.get(): null when the client is not ready or the key is absent
redisGet(c, ready, id) == IF ready /\ id \in DOMAIN c THEN c[id] ELSE NoRow

\* redis.set(): skipped when the client is not ready
redisSet(c, ready, id, row) == IF ready THEN Put(c, id, row) ELSE c

\* redis.del(): skipped when the client is not ready
redisDel(c, ready, ids) == IF ready THEN Restrict(c, (DOMAIN c) \ ids) ELSE c

\* cleanupRedisCache(): client.keys('job:*') fails into the catch when the
\* client is not ready; otherwise the keys without a row are deleted, and so
\* are the keys whose select throws (failing), in the catch inside the loop
cleanupRedisCache(s, ready, failing) ==
    [s EXCEPT !.cache = IF ready
                        THEN redisDel(@, ready, ((DOMAIN @) \ (DOMAIN s.jobs))
                                                    \cup ((DOMAIN @) \cap failing))
                        ELSE @,
              !.code = 0, !.job = NoRow, !.readStore = FALSE]

\* one request or sweep handled by a server s = [jobs, cache, nextId, ...]
\* whose redis client is ready or not; r = [op, id, body], t the clock
Served(s, ready, r, t) ==
    IF r.op = "create"
    THEN LET v == createJobSchema(r.body) IN
         IF v.error THEN [s EXCEPT !.code = 400, !.job = NoRow, !.readStore = FALSE]
         ELSE LET job == InsertedRow(Spread([id |-> s.nextId],
                            Spread(v.value, [created_at |-> t, updated_at |-> t])))
              IN  [jobs |-> Put(s.jobs, job.id, job),
                   cache |-> redisSet(s.cache, ready, job.id, job),
                   nextId |-> s.nextId + 1, code |-> 201, job |-> job,
                   readStore |-> FALSE]
    ELSE IF r.op = "get"
    THEN LET hit == redisGet(s.cache, ready, r.id) IN
         IF hit # NoRow THEN [s EXCEPT !.code = 200, !.job = hit, !.readStore = FALSE]
         ELSE IF r.id \notin DOMAIN s.jobs
         THEN [s EXCEPT !.code = 404, !.job = NoRow, !.readStore = TRUE]
         ELSE [s EXCEPT !.cache = redisSet(@, ready, r.id, s.jobs[r.id]),
                        !.code = 200, !.job = s.jobs[r.id], !.readStore = TRUE]
    ELSE IF r.op = "update"
    THEN LET v == updateJobSchema(r.body) IN
         IF v.error THEN [s EXCEPT !.code = 400, !.job = NoRow, !.readStore = FALSE]
         ELSE IF r.id \notin DOMAIN s.jobs
         THEN [s EXCEPT !.code = 404, !.job = NoRow, !.readStore = TRUE]
         ELSE LET currentJob == s.jobs[r.id]
                  updatedJob == UpdatedRow(currentJob,
                                           PutUpdateData(v.value, currentJob, t))
              IN  [s EXCEPT !.jobs = Put(@, r.id, updatedJob),
                            !.cache = redisDel(@, ready, {r.id}),
                            !.code = 200, !.job = updatedJob, !.readStore = TRUE]
    ELSE IF r.op = "delete"
    THEN IF r.id \notin DOMAIN s.jobs
         THEN [s EXCEPT !.code = 404, !.job = NoRow, !.readStore = TRUE]
         ELSE [s EXCEPT !.jobs = Remove(@, r.id),
                        !.cache = redisDel(@, ready, {r.id}),
                        !.code = 200, !.job = NoRow, !.readStore = TRUE]
    ELSE IF r.op = "sweep"
    THEN LET jobIds == ExpiredJobs(s.jobs, t) IN
         [s EXCEPT !.jobs = Restrict(@, (DOMAIN @) \ jobIds),
                   !.cache = redisDel(@, ready, jobIds),
                   !.code = 0, !.job = NoRow, !.readStore = TRUE]
    ELSE cleanupRedisCache(s, ready, {})

----------------------------------------------------------------------------
(* Specification of a server whose cache comes and goes, next to the same *)
(* requests handled with a cache that is always ready                     *)

DegradedOps == {"create", "get", "update", "delete", "sweep", "cacheSweep"}

DegradedBodies(op) ==
    IF op = "create" THEN {[ttl |-> 1]}
    ELSE IF op = "update" THEN {[progress |-> 50]}
    ELSE {NoBody}

DegradedRequests ==
    UNION {{[op |-> op, id |-> id, body |-> body] :
               id \in IdInputs(MaxJobs), body \in DegradedBodies(op)} : op \in DegradedOps}

\* the request is handled by the server and, from the state the always-ready
\* server is in, by that server
DegradedServe ==
    \E r \in DegradedRequests :
        /\ r.op \in {"sweep", "cacheSweep"} => r.id = 1
        /\ r.op = "create" => r.id = 1 /\ nextId <= MaxJobs
        /\ \E out \in {Served([NoServer EXCEPT !.jobs = jobs, !.cache = cache,
                                               !.nextId = nextId],
                              redisReady, r, now)} :
              /\ jobs' = out.jobs
              /\ cache' = out.cache
              /\ nextId' = out.nextId
              /\ lastOp' = Response(r.op, r.id, r.body, out.code, out.job, <<>>)
              /\ mirror' = [ref |-> Served(mirror.ref, TRUE, r, now),
                            down |-> ~redisReady, readStore |-> out.readStore]
        /\ everCompleted' = NoteCompleted(jobs')
        /\ UNCHANGED <<now, nextWebhookId, webhooks, redisReady, expiry, extraVars>>
        /\ UNCHANGED <<passVars, auditVars, sendVars, reqVars, raceVars>>

\* the connection to redis is lost or comes back
DegradedToggle ==
    /\ redisReady' = ~redisReady
    /\ UNCHANGED <<mirror, expiry, extraVars, storeVars, passVars, auditVars, sendVars, reqVars, raceVars>>

DegradedTick ==
    /\ Tick(MaxClock + 1)
    /\ UNCHANGED <<sideVars, passVars, auditVars, sendVars, reqVars, raceVars>>

NextDegraded == DegradedServe \/ DegradedToggle \/ DegradedTick

SpecDegraded == InitJobs /\ [][NextDegraded]_vars

----------------------------------------------------------------------------
(* Specification of the single-job routes with a clock: jobs created with *)
(* and without a status, patches of the progress and of both fields       *)

LifeCreateBodies == {NoBody, [status |-> "running"]}
LifeUpdateBodies == {[progress |-> 50], [status |-> "failed", progress |-> 50]}
LifeEventSets == {{"status_change", "progress_update"}}

LifeCreate ==
    /\ \E body \in LifeCreateBodies : CreateJob(body, MaxJobs)
    /\ UNCHANGED <<sideVars, passVars, auditVars, sendVars, reqVars, raceVars>>
LifeUpdate ==
    /\ \E id \in IdInputs(MaxJobs), body \in LifeUpdateBodies : UpdateJob(id, body)
    /\ UNCHANGED <<sideVars, passVars, auditVars, sendVars, reqVars, raceVars>>
LifeDelete ==
    /\ \E id \in IdInputs(MaxJobs) : DeleteJob(id)
    /\ UNCHANGED <<sideVars, passVars, auditVars, sendVars, reqVars, raceVars>>
LifeRegisterWebhook ==
    /\ \E events \in LifeEventSets : RegisterWebhook(events, TRUE, MaxWebhooks)
    /\ UNCHANGED <<sideVars, passVars, auditVars, sendVars, reqVars, raceVars>>
LifeTick ==
    /\ Tick(MaxClock)
    /\ UNCHANGED <<sideVars, passVars, auditVars, sendVars, reqVars, raceVars>>

NextLife ==
    \/ LifeCreate
    \/ LifeUpdate
    \/ LifeDelete
    \/ LifeRegisterWebhook
    \/ LifeTick

SpecLife == InitJobs /\ [][NextLife]_vars

----------------------------------------------------------------------------
(* Specification of the cache reconciliation: cached jobs, entries left     *)
(* behind by a sweep that could not reach the cache, selects that may throw *)

\* performCleanup() reaches cleanupRedisCache(); the select of the keys in
\* failing throws
CacheSweep(failing) ==
    /\ \E out \in {cleanupRedisCache([NoServer EXCEPT !.jobs = jobs, !.cache = cache,
                                                      !.nextId = nextId],
                                     TRUE, failing)} :
          /\ cache' = out.cache
          /\ lastOp' = [Response("cacheSweep", 0, NoBody, 0, NoRow, <<>>)
                           EXCEPT !.at = now, !.before = jobs,
                                  !.faults = IF failing = {} THEN {} ELSE {"select"}]
    /\ UNCHANGED <<now, nextId, jobs, nextWebhookId, webhooks, everCompleted>>

EvictSweep ==
    /\ \E failing \in SUBSET (DOMAIN cache) : CacheSweep(failing)
    /\ UNCHANGED <<sideVars, passVars, auditVars, sendVars, reqVars, raceVars>>

NextEvict == TwiceCreate \/ TwiceTick \/ TwiceCacheDown \/ EvictSweep

SpecEvict == InitJobs /\ [][NextEvict]_vars

----------------------------------------------------------------------------
(* PUT /api/jobs/:id racing with GET /api/jobs/:id, and the expiry of the *)
(* cache keys                                                             *)

\* redis.set(`job:${id}`, job, 3600): the ttl argument, in seconds
JobCacheTtl == 3600

\* a key written by client.set(), which never expires
Persistent == Null

\* redis.set() that always takes the branch without ttl
setEx_Persist(exp, id, ttl, t) == Put(exp, id, [at |-> t, until |-> Persistent])

\* if (ttl) client.setEx(key, ttl, ...) else client.set(key, ...)
setEx(exp, id, ttl, t) ==
    Put(exp, id, [at |-> t,
                  until |-> IF ttl # Null /\ ttl # 0 THEN t + ttl ELSE Persistent])

\* the keys redis still holds at time t
Unexpired(exp, t) ==
    {id \in DOMAIN exp : exp[id].until = Persistent \/ exp[id].until > t}

\* a PUT /api/jobs/:id request with a valid patch arrives
PutStart(p, id, body) ==
    /\ procs[p].pc = "idle"
    /\ ~updateJobSchema(body).error
    /\ procs' = [procs EXCEPT ![p] = [IdleProc EXCEPT !.pc = "putSelect", !.op = "update",
                                         !.id = id, !.body = body]]
    /\ UNCHANGED <<raceFrame, jobs, cache, deletedDone>>

\* const [currentJob] = await db('jobs').where('id', id).select('*'); 404 if none
PutSelect(p) ==
    /\ procs[p].pc = "putSelect"
    /\ procs' = [procs EXCEPT ![p] =
                    IF procs[p].id \in DOMAIN jobs
                    THEN [@ EXCEPT !.pc = "putWrite", !.job = jobs[procs[p].id]]
                    ELSE [@ EXCEPT !.pc = "done", !.code = 404]]
    /\ UNCHANGED <<raceFrame, jobs, cache, deletedDone>>

\* const [updatedJob] = await db('jobs').where('id', id).update(updateData)
\* .returning('*'): updatedJob is undefined when the row is no longer there
PutWrite(p) ==
    /\ procs[p].pc = "putWrite"
    /\ \E updatedJob \in {IF procs[p].id \in DOMAIN jobs
                           THEN UpdatedRow(jobs[procs[p].id],
                                           PutUpdateData(procs[p].body, procs[p].job, now))
                           ELSE NoRow} :
          /\ jobs' = IF updatedJob = NoRow THEN jobs ELSE Put(jobs, procs[p].id, updatedJob)
          /\ procs' = [procs EXCEPT ![p] = [@ EXCEPT !.pc = "putDel", !.updated = updatedJob]]
    /\ everCompleted' = NoteCompleted(jobs')
    /\ UNCHANGED <<now, nextId, nextWebhookId, webhooks, lastOp, cache, deletedDone>>

\* await redis.del(`job:${id}`); the two triggerWebhooks calls; logger.info
\* with updatedJob.status; res.json.  With updatedJob undefined
\* createJobPayload throws inside the try of triggerWebhooks, so that nothing
\* is sent, and logger.info throws into the catch of the handler, which
\* answers 500
PutDel(p) ==
    /\ procs[p].pc = "putDel"
    /\ cache' = Remove(cache, procs[p].id)
    /\ procs' = [procs EXCEPT ![p] =
                    IF procs[p].updated = NoRow
                    THEN [@ EXCEPT !.pc = "done", !.code = 500]
                    ELSE [@ EXCEPT !.pc = "done", !.code = 200,
                                   !.events = UpdateEvents(webhooks, procs[p].body,
                                                           procs[p].job, procs[p].updated)]]
    /\ UNCHANGED <<raceFrame, jobs, deletedDone>>

\* time passes; redis drops the keys whose expiry has been reached
ExpiryTick(step, maxTime) ==
    /\ now < maxTime
    /\ now' = now + step
    /\ cache' = Restrict(cache, Unexpired(expiry, now'))
    /\ expiry' = Restrict(expiry, Unexpired(expiry, now'))
    /\ UNCHANGED <<nextId, jobs, nextWebhookId, webhooks, lastOp, everCompleted>>

----------------------------------------------------------------------------
(* Specification of one reader and one writer of the same jobs, with a *)
(* clock that advances by half the lifetime of a cache key             *)

\* the two handlers that run: the first serves the GETs, the next the PUTs
Reader == CHOOSE p \in Procs : \A q \in Procs : p <= q
Writer == Reader + 1
StalePatches == {[progress |-> 50]}

\* POST /api/jobs: the redis.set of the handler sets the expiry of the key
StaleCreate ==
    /\ CreateJob(NoBody, MaxJobs)
    /\ expiry' = setEx(expiry, nextId, JobCacheTtl, now)
    /\ UNCHANGED <<redisReady, mirror, extraVars, passVars, auditVars, sendVars, reqVars, raceVars>>
StaleGetStart ==
    /\ \E id \in IdInputs(MaxJobs) : GetStart(Reader, id)
    /\ UNCHANGED <<sideVars, passVars, auditVars, sendVars, reqVars>>
StaleGetCache == GetCache(Reader) /\ UNCHANGED <<sideVars, passVars, auditVars, sendVars, reqVars>>
StaleGetSelect == GetSelect(Reader) /\ UNCHANGED <<sideVars, passVars, auditVars, sendVars, reqVars>>
\* the redis.set of the read-through populate sets the expiry of the key
StaleGetSet ==
    /\ GetSet(Reader)
    /\ expiry' = setEx(expiry, procs[Reader].id, JobCacheTtl, now)
    /\ UNCHANGED <<redisReady, mirror, extraVars, passVars, auditVars, sendVars, reqVars>>
StalePutStart ==
    /\ \E id \in IdInputs(MaxJobs), body \in StalePatches : PutStart(Writer, id, body)
    /\ UNCHANGED <<sideVars, passVars, auditVars, sendVars, reqVars>>
StalePutSelect == PutSelect(Writer) /\ UNCHANGED <<sideVars, passVars, auditVars, sendVars, reqVars>>
StalePutWrite == PutWrite(Writer) /\ UNCHANGED <<sideVars, passVars, auditVars, sendVars, reqVars>>
\* redis.del removes the key with its expiry
StalePutDel ==
    /\ PutDel(Writer)
    /\ expiry' = Remove(expiry, procs[Writer].id)
    /\ UNCHANGED <<redisReady, mirror, extraVars, passVars, auditVars, sendVars, reqVars>>
StaleReturn ==
    /\ \E p \in {Reader, Writer} : HandlerReturn(p)
    /\ UNCHANGED <<sideVars, passVars, auditVars, sendVars, reqVars>>
StaleTick ==
    /\ ExpiryTick(JobCacheTtl \div 2, MaxTime * (JobCacheTtl \div 2))
    /\ UNCHANGED <<redisReady, mirror, extraVars, passVars, auditVars, sendVars, reqVars, raceVars>>

NextStale ==
    \/ StaleCreate
    \/ StaleGetStart
    \/ StaleGetCache
    \/ StaleGetSelect
    \/ StaleGetSet
    \/ StalePutStart
    \/ StalePutSelect
    \/ StalePutWrite
    \/ StalePutDel
    \/ StaleReturn
    \/ StaleTick

SpecStale == InitJobs /\ [][NextStale]_vars

----------------------------------------------------------------------------
(* Specification of the lifecycle with webhooks that listen to completion *)
(* and failure: jobs are completed and failed by the single and the bulk  *)
(* route, deleted and swept                                               *)

EventsPatches == {[status |-> "completed"], [status |-> "failed"]}
EventsSubscriptions == {{"completion", "failure"}, {"status_change", "completion"}}
EventsBulkOps ==
    {[operation |-> "create", data |-> [status |-> "completed", ttl |-> 1]]}
    \cup {[operation |-> "update", data |-> [id |-> i, status |-> "failed"]] :
             i \in IdInputs(MaxJobs)}

\* every job is created with a ttl, so that the sweep has jobs to remove
EventsCreate ==
    /\ CreateJob([ttl |-> 1], MaxJobs)
    /\ UNCHANGED <<sideVars, passVars, auditVars, sendVars, reqVars, raceVars>>
EventsUpdate ==
    /\ \E id \in IdInputs(MaxJobs), body \in EventsPatches : UpdateJob(id, body)
    /\ UNCHANGED <<sideVars, passVars, auditVars, sendVars, reqVars, raceVars>>
EventsBulk ==
    /\ \E op \in EventsBulkOps : BulkApply(<<op>>, MaxJobs)
    /\ UNCHANGED <<sideVars, passVars, auditVars, sendVars, reqVars, raceVars>>
EventsRegisterWebhook ==
    /\ \E events \in EventsSubscriptions : RegisterWebhook(events, TRUE, MaxWebhooks)
    /\ UNCHANGED <<sideVars, passVars, auditVars, sendVars, reqVars, raceVars>>

NextEvents ==
    \/ EventsCreate
    \/ EventsUpdate
    \/ RemoveDelete
    \/ EventsBulk
    \/ RemoveTick
    \/ RemoveExpired
    \/ EventsRegisterWebhook

SpecEvents == InitJobs /\ [][NextEvents]_vars

----------------------------------------------------------------------------
(* Specification of the payloads: jobs are created and updated while     *)
(* webhooks listen, and the payload of every event is kept               *)

RowOf(table, id) == IF id \in DOMAIN table THEN table[id] ELSE NoRow

PayloadCreate ==
    /\ \E body \in LifeCreateBodies : CreateJob(body, MaxJobs)
    /\ payloads' = BuiltPayloads(lastOp'.events, RowOf(jobs', lastOp'.id), NoPrevious, now)
    /\ UNCHANGED <<redisReady, mirror, expiry, lastTriggered, outcomes, lateVars>>
    /\ UNCHANGED <<passVars, auditVars, sendVars, reqVars, raceVars>>
PayloadUpdate ==
    /\ \E id \in IdInputs(MaxJobs), body \in LifeUpdateBodies \cup EventsPatches :
          UpdateJob(id, body)
    /\ payloads' = BuiltPayloads(lastOp'.events, RowOf(jobs', lastOp'.id), lastOp'.prev, now)
    /\ UNCHANGED <<redisReady, mirror, expiry, lastTriggered, outcomes, lateVars>>
    /\ UNCHANGED <<passVars, auditVars, sendVars, reqVars, raceVars>>
PayloadRegisterWebhook ==
    /\ \E events \in LifeEventSets : RegisterWebhook(events, TRUE, MaxWebhooks)
    /\ UNCHANGED <<sideVars, passVars, auditVars, sendVars, reqVars, raceVars>>
PayloadTick ==
    /\ Tick(MaxClock)
    /\ UNCHANGED <<sideVars, passVars, auditVars, sendVars, reqVars, raceVars>>

NextPayload ==
    \/ PayloadCreate
    \/ PayloadUpdate
    \/ PayloadRegisterWebhook
    \/ PayloadTick

SpecPayload == InitJobs /\ [][NextPayload]_vars

----------------------------------------------------------------------------
(* POST /api/webhooks/:id/test, and the deliveries of a job event seen as *)
(* what each sendWebhook call returns                                     *)

\* webhooks.last_triggered of a row
LastTriggered(table, w) == IF w \in DOMAIN table THEN table[w] ELSE Null

\* POST /api/webhooks/:id/test; success is what sendWebhook returns
TestWebhook(id, success) ==
    IF id \notin DOMAIN webhooks
    THEN /\ lastOp' = Response("test", id, NoBody, 404, NoRow, <<>>)
         /\ outcomes' = EmptyTable
         /\ UNCHANGED lastTriggered
    ELSE /\ lastOp' = Response("test", id, NoBody, 200, NoRow, <<>>)
         /\ outcomes' = Put(EmptyTable, id, success)
         /\ lastTriggered' = IF success THEN Put(lastTriggered, id, now) ELSE lastTriggered

\* triggerWebhooks for the events of a request: sendWebhooks is awaited and
\* its results are dropped
Delivered(events) ==
    /\ \E results \in [UNION {events[i].sentTo : i \in DOMAIN events} -> BOOLEAN] :
          outcomes' = results
    /\ UNCHANGED lastTriggered

----------------------------------------------------------------------------
(* Specification of the deliveries to registered webhooks: job events and *)
(* test sends that succeed or fail                                        *)

TriggerEventSets == {{"status_change"}}

TriggerCreate ==
    /\ CreateJob(NoBody, MaxJobs)
    /\ Delivered(lastOp'.events)
    /\ UNCHANGED <<redisReady, mirror, expiry, payloads, lateVars>>
    /\ UNCHANGED <<passVars, auditVars, sendVars, reqVars, raceVars>>
TriggerUpdate ==
    /\ \E id \in IdInputs(MaxJobs) : UpdateJob(id, [status |-> "running"])
    /\ Delivered(lastOp'.events)
    /\ UNCHANGED <<redisReady, mirror, expiry, payloads, lateVars>>
    /\ UNCHANGED <<passVars, auditVars, sendVars, reqVars, raceVars>>
TriggerTest ==
    /\ \E id \in IdInputs(MaxWebhooks), success \in BOOLEAN : TestWebhook(id, success)
    /\ UNCHANGED <<now, nextId, jobs, cache, nextWebhookId, webhooks, everCompleted>>
    /\ UNCHANGED <<redisReady, mirror, expiry, payloads, lateVars>>
    /\ UNCHANGED <<passVars, auditVars, sendVars, reqVars, raceVars>>
TriggerRegisterWebhook ==
    /\ \E events \in TriggerEventSets : RegisterWebhook(events, TRUE, MaxWebhooks)
    /\ UNCHANGED <<sideVars, passVars, auditVars, sendVars, reqVars, raceVars>>
TriggerTick ==
    /\ Tick(MaxClock + 1)
    /\ UNCHANGED <<sideVars, passVars, auditVars, sendVars, reqVars, raceVars>>

NextTrigger ==
    \/ TriggerCreate
    \/ TriggerUpdate
    \/ TriggerTest
    \/ TriggerRegisterWebhook
    \/ TriggerTick

SpecTrigger == InitJobs /\ [][NextTrigger]_vars

----------------------------------------------------------------------------
(* CleanupService.start, stop and the two cron schedules *)

\* start(): returns when running; otherwise cron.schedule('0 * * * *') and
\* cron.schedule('*/15 * * * *') register one task each (the tasks returned
\* by cron.schedule are not kept), then isRunning = true
start(svc) ==
    IF svc.isRunning THEN svc
    ELSE [isRunning |-> TRUE, hourly |-> svc.hourly + 1, quarter |-> svc.quarter + 1]

\* stop(): returns when not running; otherwise isRunning = false
stop(svc) ==
    IF ~svc.isRunning THEN svc ELSE [svc EXCEPT !.isRunning = FALSE]

\* performCleanup(): nothing when isRunning is false, otherwise
\* cleanupExpiredJobs, cleanupOldWebhookDeliveries (no row reaches the age of
\* 30 days within the clock values of the model) and cleanupRedisCache
performCleanup(s, svc, t) ==
    IF ~svc.isRunning THEN s
    ELSE Served(Served(s, TRUE, [op |-> "sweep", id |-> 1, body |-> NoBody], t),
                TRUE, [op |-> "cacheSweep", id |-> 1, body |-> NoBody], t)

\* the minute of a schedule comes: every task registered for it calls its
\* callback, performCleanup() for '0 * * * *' and cleanupExpiredJobs() for
\* '*/15 * * * *'; the passes of one tick read the same clock, so that the
\* store after all of them is the store after the first
ScheduleTick(schedule) ==
    /\ service[schedule] > 0
    /\ \E out \in {IF schedule = "hourly"
                   THEN performCleanup([NoServer EXCEPT !.jobs = jobs, !.cache = cache,
                                                        !.nextId = nextId], service, now)
                   ELSE Served([NoServer EXCEPT !.jobs = jobs, !.cache = cache,
                                                !.nextId = nextId],
                               TRUE, [op |-> "sweep", id |-> 1, body |-> NoBody], now)} :
          /\ jobs' = out.jobs
          /\ cache' = out.cache
    /\ lastTick' = [schedule |-> schedule, passes |-> service[schedule],
                    running |-> service.isRunning]
    /\ lastOp' = [Response("tick", 0, NoBody, 0, NoRow, <<>>)
                     EXCEPT !.at = now, !.before = jobs]
    /\ UNCHANGED <<now, nextId, nextWebhookId, webhooks, everCompleted, service>>

----------------------------------------------------------------------------
(* Specification of the cleanup service: it is started and stopped while *)
(* jobs with a ttl are created and the schedules tick                    *)

ServiceStart ==
    /\ service.hourly < MaxStarts
    /\ service' = start(service)
    /\ UNCHANGED <<lastTick, redisReady, mirror, expiry, payloads, lastTriggered, outcomes>>
    /\ UNCHANGED <<storeVars, passVars, auditVars, sendVars, reqVars, raceVars>>
ServiceStop ==
    /\ service' = stop(service)
    /\ UNCHANGED <<lastTick, redisReady, mirror, expiry, payloads, lastTriggered, outcomes>>
    /\ UNCHANGED <<storeVars, passVars, auditVars, sendVars, reqVars, raceVars>>
ServiceSchedule ==
    /\ \E schedule \in {"hourly", "quarter"} : ScheduleTick(schedule)
    /\ UNCHANGED <<redisReady, mirror, expiry, payloads, lastTriggered, outcomes>>
    /\ UNCHANGED <<passVars, auditVars, sendVars, reqVars, raceVars>>
ServiceCreate ==
    /\ CreateJob([ttl |-> 1], MaxJobs + 1)
    /\ UNCHANGED <<sideVars, passVars, auditVars, sendVars, reqVars, raceVars>>
ServiceTick ==
    /\ Tick(MaxClock + 1)
    /\ UNCHANGED <<sideVars, passVars, auditVars, sendVars, reqVars, raceVars>>

NextService ==
    \/ ServiceStart
    \/ ServiceStop
    \/ ServiceSchedule
    \/ ServiceCreate
    \/ ServiceTick

SpecService == InitJobs /\ [][NextService]_vars

----------------------------------------------------------------------------
(* Specification of two PUT /api/jobs/:id handlers that complete the same *)
(* jobs at the same time, with a clock                                    *)

PairPatches == {[status |-> "completed"]}

PairCreate ==
    /\ CreateJob(NoBody, MaxJobs)
    /\ UNCHANGED <<sideVars, passVars, auditVars, sendVars, reqVars, raceVars>>
PairRegisterWebhook ==
    /\ RegisterWebhook({"status_change"}, TRUE, MaxWebhooks)
    /\ UNCHANGED <<sideVars, passVars, auditVars, sendVars, reqVars, raceVars>>
PairPutStart ==
    /\ \E p \in Procs, id \in IdInputs(MaxJobs), body \in PairPatches : PutStart(p, id, body)
    /\ UNCHANGED <<sideVars, passVars, auditVars, sendVars, reqVars>>
PairPutSelect ==
    /\ \E p \in Procs : PutSelect(p)
    /\ UNCHANGED <<sideVars, passVars, auditVars, sendVars, reqVars>>
PairPutWrite ==
    /\ \E p \in Procs : PutWrite(p)
    /\ UNCHANGED <<sideVars, passVars, auditVars, sendVars, reqVars>>
PairPutDel ==
    /\ \E p \in Procs : PutDel(p)
    /\ UNCHANGED <<sideVars, passVars, auditVars, sendVars, reqVars>>
PairReturn ==
    /\ \E p \in Procs : HandlerReturn(p)
    /\ UNCHANGED <<sideVars, passVars, auditVars, sendVars, reqVars>>
PairTick ==
    /\ Tick(MaxClock + 1)
    /\ UNCHANGED <<sideVars, passVars, auditVars, sendVars, reqVars, raceVars>>

NextPair ==
    \/ PairCreate
    \/ PairRegisterWebhook
    \/ PairPutStart
    \/ PairPutSelect
    \/ PairPutWrite
    \/ PairPutDel
    \/ PairReturn
    \/ PairTick

SpecPair == InitJobs /\ [][NextPair]_vars

----------------------------------------------------------------------------
(* Specification of PUT /api/jobs/:id racing with the removal of its job *)
(* by DELETE /api/jobs/:id and by the expiry sweep                        *)

VanishPatches == {[status |-> "running"]}

VanishCreate ==
    /\ CreateJob([ttl |-> 1], MaxJobs)
    /\ UNCHANGED <<sideVars, passVars, auditVars, sendVars, reqVars, raceVars>>
VanishRegisterWebhook ==
    /\ RegisterWebhook({"status_change"}, TRUE, MaxWebhooks)
    /\ UNCHANGED <<sideVars, passVars, auditVars, sendVars, reqVars, raceVars>>
VanishPutStart ==
    /\ \E id \in IdInputs(MaxJobs), body \in VanishPatches : PutStart(Writer, id, body)
    /\ UNCHANGED <<sideVars, passVars, auditVars, sendVars, reqVars>>
VanishPutSelect == PutSelect(Writer) /\ UNCHANGED <<sideVars, passVars, auditVars, sendVars, reqVars>>
VanishPutWrite == PutWrite(Writer) /\ UNCHANGED <<sideVars, passVars, auditVars, sendVars, reqVars>>
VanishPutDel == PutDel(Writer) /\ UNCHANGED <<sideVars, passVars, auditVars, sendVars, reqVars>>
VanishDeleteStart ==
    /\ \E id \in IdInputs(MaxJobs) : DeleteStart(Reader, id)
    /\ UNCHANGED <<sideVars, passVars, auditVars, sendVars, reqVars>>
VanishDeleteDb == DeleteDb(Reader) /\ UNCHANGED <<sideVars, passVars, auditVars, sendVars, reqVars>>
VanishDeleteCache == DeleteCache(Reader) /\ UNCHANGED <<sideVars, passVars, auditVars, sendVars, reqVars>>
VanishReturn ==
    /\ \E p \in {Reader, Writer} : HandlerReturn(p)
    /\ UNCHANGED <<sideVars, passVars, auditVars, sendVars, reqVars>>
VanishSweep ==
    /\ CleanupExpiredJobs
    /\ UNCHANGED <<sideVars, passVars, auditVars, sendVars, reqVars, raceVars>>
VanishTick ==
    /\ Tick(MaxClock + 1)
    /\ UNCHANGED <<sideVars, passVars, auditVars, sendVars, reqVars, raceVars>>

NextVanish ==
    \/ VanishCreate
    \/ VanishRegisterWebhook
    \/ VanishPutStart
    \/ VanishPutSelect
    \/ VanishPutWrite
    \/ VanishPutDel
    \/ VanishDeleteStart
    \/ VanishDeleteDb
    \/ VanishDeleteCache
    \/ VanishReturn
    \/ VanishSweep
    \/ VanishTick

SpecVanish == InitJobs /\ [][NextVanish]_vars

----------------------------------------------------------------------------
(* Specification of the expiry sweep, step by step, racing with updates *)
(* that raise the ttl of a job                                           *)

\* a ttl that no clock value of the model reaches
RaisePatches == {[ttl |-> MaxTime + MaxClock]}

RaiseCreate ==
    /\ CreateJob([ttl |-> 1], MaxJobs)
    /\ UNCHANGED <<sideVars, passVars, auditVars, sendVars, reqVars, raceVars>>
RaiseTick ==
    /\ Tick(MaxClock + 1)
    /\ UNCHANGED <<sideVars, passVars, auditVars, sendVars, reqVars, raceVars>>
RaiseUpdate ==
    /\ \E id \in IdInputs(MaxJobs), body \in RaisePatches : UpdateJob(id, body)
    /\ UNCHANGED <<sideVars, passVars, auditVars, sendVars, reqVars, raceVars>>
RaiseStart ==
    /\ \E p \in Passes : PassStart(p, "expired")
    /\ UNCHANGED <<sideVars, sendVars, reqVars, raceVars>>
RaiseSelect == (\E p \in Passes : PassSelect(p)) /\ UNCHANGED <<sideVars, sendVars, reqVars, raceVars>>
RaiseDelete == (\E p \in Passes : PassDelete(p)) /\ UNCHANGED <<sideVars, sendVars, reqVars, raceVars>>
RaiseCacheDel == (\E p \in Passes : PassCacheDel(p)) /\ UNCHANGED <<sideVars, sendVars, reqVars, raceVars>>
RaiseReturn == PassesReturn /\ UNCHANGED <<sideVars, sendVars, reqVars, raceVars>>

NextRaise ==
    \/ RaiseCreate
    \/ RaiseTick
    \/ RaiseUpdate
    \/ RaiseStart
    \/ RaiseSelect
    \/ RaiseDelete
    \/ RaiseCacheDel
    \/ RaiseReturn

SpecRaise == InitJobs /\ [][NextRaise]_vars

----------------------------------------------------------------------------
(* Specification of a fan-out during which webhooks are deactivated and *)
(* deleted: the handler of POST /api/jobs step by step, next to          *)
(* PUT /api/webhooks/:id and DELETE /api/webhooks/:id                    *)

QuitBodies == {[url |-> HookUrl, events |-> {"status_change"}, isActive |-> FALSE]}

QuitRegisterWebhook ==
    /\ req.pc = "idle"
    /\ RegisterWebhook({"status_change"}, TRUE, MaxReqWebhooks)
    /\ UNCHANGED <<sideVars, passVars, auditVars, sendVars, reqVars, raceVars>>
QuitDeactivate ==
    /\ \E id \in IdInputs(MaxReqWebhooks), body \in QuitBodies : UpdateWebhook(id, body)
    /\ UNCHANGED <<sideVars, passVars, auditVars, sendVars, reqVars, raceVars>>
QuitDelete ==
    /\ \E id \in IdInputs(MaxReqWebhooks) : DeleteWebhook(id)
    /\ UNCHANGED <<sideVars, passVars, auditVars, sendVars, reqVars, raceVars>>
QuitCreateStep == ReqCreate(NoBody) /\ UNCHANGED <<sideVars, passVars, auditVars, sendVars, raceVars>>
QuitInsertStep == ReqInsert /\ UNCHANGED <<sideVars, passVars, auditVars, sendVars, raceVars>>
QuitCacheStep == ReqCache /\ UNCHANGED <<sideVars, passVars, auditVars, sendVars, raceVars>>
QuitTriggerStep == ReqTrigger("none") /\ UNCHANGED <<sideVars, passVars, auditVars, sendVars, raceVars>>
QuitRequestStep ==
    /\ \E w \in DOMAIN fan.chains, reply \in FanReplies : FanRequest(w, reply)
    /\ UNCHANGED <<sideVars, passVars, auditVars, sendVars, raceVars>>
QuitBackoffStep == (\E w \in DOMAIN fan.chains : FanBackoff(w)) /\ UNCHANGED <<sideVars, passVars, auditVars, sendVars, raceVars>>
QuitSettledStep == FanSettled /\ UNCHANGED <<sideVars, passVars, auditVars, sendVars, raceVars>>
QuitPauseStep == FanPause /\ UNCHANGED <<sideVars, passVars, auditVars, sendVars, raceVars>>
QuitRespondStep == ReqRespond /\ UNCHANGED <<sideVars, passVars, auditVars, sendVars, raceVars>>

NextQuit ==
    \/ QuitRegisterWebhook
    \/ QuitDeactivate
    \/ QuitDelete
    \/ QuitCreateStep
    \/ QuitInsertStep
    \/ QuitCacheStep
    \/ QuitTriggerStep
    \/ QuitRequestStep
    \/ QuitBackoffStep
    \/ QuitSettledStep
    \/ QuitPauseStep
    \/ QuitRespondStep

SpecQuit == InitReq /\ [][NextQuit]_vars

----------------------------------------------------------------------------
(* Specification of the seven operations on jobs, one at a time, with the *)
(* cache available: single-job routes, bulk route, both sweeps, and the   *)
(* expiry of cache keys                                                   *)

CoherentPatches == {[progress |-> 50]}
CoherentBulkOps ==
    {[operation |-> "create", data |-> [status |-> "pending", progress |-> 0, ttl |-> 1]]}
    \cup {[operation |-> kind, data |-> [id |-> i]] :
             kind \in {"update", "delete"}, i \in IdInputs(MaxJobs)}

CoherentCreate ==
    /\ CreateJob([ttl |-> 1], MaxJobs)
    /\ UNCHANGED <<sideVars, passVars, auditVars, sendVars, reqVars, raceVars>>
CoherentGet ==
    /\ \E id \in IdInputs(MaxJobs) : GetJob(id)
    /\ UNCHANGED <<sideVars, passVars, auditVars, sendVars, reqVars, raceVars>>
CoherentUpdate ==
    /\ \E id \in IdInputs(MaxJobs), body \in CoherentPatches : UpdateJob(id, body)
    /\ UNCHANGED <<sideVars, passVars, auditVars, sendVars, reqVars, raceVars>>
CoherentDelete ==
    /\ \E id \in IdInputs(MaxJobs) : DeleteJob(id)
    /\ UNCHANGED <<sideVars, passVars, auditVars, sendVars, reqVars, raceVars>>
CoherentBulk ==
    /\ \E op \in CoherentBulkOps : BulkApply(<<op>>, MaxJobs)
    /\ UNCHANGED <<sideVars, passVars, auditVars, sendVars, reqVars, raceVars>>
CoherentSweep ==
    /\ CleanupExpiredJobs
    /\ UNCHANGED <<sideVars, passVars, auditVars, sendVars, reqVars, raceVars>>
CoherentCacheSweep ==
    /\ \E failing \in SUBSET (DOMAIN cache) : CacheSweep(failing)
    /\ UNCHANGED <<sideVars, passVars, auditVars, sendVars, reqVars, raceVars>>
CoherentExpire ==
    /\ \E id \in IdInputs(MaxJobs) : CacheExpire(id)
    /\ UNCHANGED <<sideVars, passVars, auditVars, sendVars, reqVars>>
CoherentTick ==
    /\ Tick(MaxClock + 1)
    /\ UNCHANGED <<sideVars, passVars, auditVars, sendVars, reqVars, raceVars>>

NextCoherent ==
    \/ CoherentCreate
    \/ CoherentGet
    \/ CoherentUpdate
    \/ CoherentDelete
    \/ CoherentBulk
    \/ CoherentSweep
    \/ CoherentCacheSweep
    \/ CoherentExpire
    \/ CoherentTick

SpecCoherent == InitJobs /\ [][NextCoherent]_vars

----------------------------------------------------------------------------
(* Specification of the fan-out of POST /api/jobs under the values that   *)
(* WEBHOOK_BATCH_SIZE can take: unset, positive, negative                 *)

LoopEnvValues == {Unset, 1, Unset - 1}

InitLoop ==
    /\ envRetries = 1
    /\ maxRetries = ConstructorMaxRetries(envRetries)
    /\ chain = NewChain
    /\ InitStore
    /\ batchSize \in {ConstructorBatchSize(e) : e \in LoopEnvValues}
    /\ req = IdleReq
    /\ fan = IdleFan
    /\ reqCount = 0
    /\ procs = [p \in 1 .. MaxProcs |-> IdleProc]
    /\ deletedDone = {}

LoopRegisterWebhook ==
    /\ req.pc = "idle"
    /\ RegisterWebhook({"status_change"}, TRUE, MaxReqWebhooks)
    /\ UNCHANGED <<sideVars, passVars, auditVars, sendVars, reqVars, raceVars>>
LoopCreateStep == ReqCreate(NoBody) /\ UNCHANGED <<sideVars, passVars, auditVars, sendVars, raceVars>>
LoopInsertStep == ReqInsert /\ UNCHANGED <<sideVars, passVars, auditVars, sendVars, raceVars>>
LoopCacheStep == ReqCache /\ UNCHANGED <<sideVars, passVars, auditVars, sendVars, raceVars>>
LoopTriggerStep == ReqTrigger("none") /\ UNCHANGED <<sideVars, passVars, auditVars, sendVars, raceVars>>
LoopRequestStep ==
    /\ \E w \in DOMAIN fan.chains, reply \in FanReplies : FanRequest(w, reply)
    /\ UNCHANGED <<sideVars, passVars, auditVars, sendVars, raceVars>>
LoopBackoffStep == (\E w \in DOMAIN fan.chains : FanBackoff(w)) /\ UNCHANGED <<sideVars, passVars, auditVars, sendVars, raceVars>>
LoopSettledStep == FanSettled /\ UNCHANGED <<sideVars, passVars, auditVars, sendVars, raceVars>>
\* the loop is followed for MaxLoops rounds below the start of the list
LoopPauseStep ==
    /\ fan.i + batchSize >= 0 - MaxLoops
    /\ FanPause
    /\ UNCHANGED <<sideVars, passVars, auditVars, sendVars, raceVars>>
LoopRespondStep == ReqRespond /\ UNCHANGED <<sideVars, passVars, auditVars, sendVars, raceVars>>

NextLoop ==
    \/ LoopRegisterWebhook
    \/ LoopCreateStep
    \/ LoopInsertStep
    \/ LoopCacheStep
    \/ LoopTriggerStep
    \/ LoopRequestStep
    \/ LoopBackoffStep
    \/ LoopSettledStep
    \/ LoopPauseStep
    \/ LoopRespondStep

SpecLoop == InitLoop /\ [][NextLoop]_vars

----------------------------------------------------------------------------
(* Specification of a single sendWebhook call chain *)

EnvValues == {Unset} \cup (0 .. MaxEnvRetries)

InitSend ==
    /\ envRetries \in EnvValues
    /\ maxRetries = ConstructorMaxRetries(envRetries)
    /\ chain = NewChain
    /\ InitStore
    /\ InitReqIdle

SendRequest ==
    /\ chain.pc = "request"
    /\ \E reply \in Replies : chain' = sendWebhook(chain, reply, maxRetries)
    /\ UNCHANGED <<envRetries, maxRetries>>
    /\ UNCHANGED <<sideVars, passVars, auditVars, storeVars, reqVars, raceVars>>

SendBackoff ==
    /\ chain.pc = "backoff"
    /\ chain' = RetryAfterBackoff(chain)
    /\ UNCHANGED <<envRetries, maxRetries>>
    /\ UNCHANGED <<sideVars, passVars, auditVars, storeVars, reqVars, raceVars>>

NextSend == SendRequest \/ SendBackoff

SpecSend == InitSend /\ [][NextSend]_vars

----------------------------------------------------------------------------
(* Properties of sendWebhook *)

NumRequests(c) == Len(c.replies)

AllStatus(c, s) ==
    /\ c.replies # <<>>
    /\ \A i \in 1 .. Len(c.replies) :
          c.replies[i].code = NoCode /\ c.replies[i].status = s

AllCode(c, code) ==
    /\ c.replies # <<>>
    /\ \A i \in 1 .. Len(c.replies) : c.replies[i].code = code

ReturnedFalse(c) == c.pc = "done" /\ c.settled = "resolved" /\ c.value = FALSE
ReturnedTrue(c) == c.pc = "done" /\ c.settled = "resolved" /\ c.value = TRUE

\* C2: with maximum retry count N = maxRetries, a finished sendWebhook call
\* against an endpoint that always answers 503 has made exactly N retries
\* (N+1 requests) and returned false; against 404 exactly one request and
\* false; against 200 exactly one request and true.
C2_RetryCounts ==
    chain.pc = "done" =>
        /\ AllStatus(chain, 503) =>
              /\ NumRequests(chain) = maxRetries + 1
              /\ chain.retryCount = maxRetries
              /\ ReturnedFalse(chain)
        /\ chain.replies[1] = [status |-> 404, code |-> NoCode] =>
              /\ NumRequests(chain) = 1
              /\ chain.retryCount = 0
              /\ ReturnedFalse(chain)
        /\ chain.replies[1] = [status |-> 200, code |-> NoCode] =>
              /\ NumRequests(chain) = 1
              /\ chain.retryCount = 0
              /\ ReturnedTrue(chain)

C2_Witness ==
    /\ chain.pc = "done"
    /\ AllStatus(chain, 503)
    /\ NumRequests(chain) = maxRetries + 1
    /\ ReturnedFalse(chain)

\* the failure classes the specification names as retryable
RetryableReply(r) ==
    \/ r.code = "ECONNRESET"
    \/ r.code = "ETIMEDOUT"
    \/ (r.code = NoCode /\ r.status >= 500)

FailureReply(r) == ~(r.code = NoCode /\ r.status >= 200 /\ r.status < 300)

\* the chain went on after its i-th request
ContinuedAfter(c, i) == i < Len(c.replies) \/ c.pc # "done"

C4_NeverRaises ==
    /\ chain.settled \in {"pending", "resolved"}
    /\ chain.value \in BOOLEAN
    /\ (chain.pc = "done") <=> (chain.settled = "resolved")
    /\ chain.pc = "done" =>
          (chain.value = FALSE <=> FailureReply(chain.replies[Len(chain.replies)]))

C4_Witness ==
    /\ AllCode(chain, "ECONNRESET")
    /\ NumRequests(chain) = maxRetries + 1
    /\ ReturnedFalse(chain)

----------------------------------------------------------------------------
(* Properties of the job lifecycle *)

EventCount(events, e) ==
    Cardinality({i \in 1 .. Len(events) : events[i].event = e})

StatusChanges(r) == Has(r.body, "status") /\ r.body.status # r.prev.status
ProgressChanges(r) == Has(r.body, "progress") /\ r.body.progress # r.prev.progress

AcceptedUpdate(r) == r.op = "update" /\ r.code = 200

\* C5: an update of an existing job emits status_change exactly once if the
\* patch has a status that differs from the stored one and not otherwise,
\* and progress_update exactly once if the patch has a progress that differs
\* from the stored one and not otherwise, each decided on its own.
C5_UpdateEvents ==
    /\ AcceptedUpdate(lastOp) =>
         /\ EventCount(lastOp.events, "status_change")
              = (IF StatusChanges(lastOp) THEN 1 ELSE 0)
         /\ EventCount(lastOp.events, "progress_update")
              = (IF ProgressChanges(lastOp) THEN 1 ELSE 0)
         /\ Len(lastOp.events) = EventCount(lastOp.events, "status_change")
                                  + EventCount(lastOp.events, "progress_update")
    /\ (lastOp.op = "update" /\ lastOp.code # 200) => lastOp.events = <<>>

C5_Witness ==
    /\ AcceptedUpdate(lastOp)
    /\ StatusChanges(lastOp)
    /\ ProgressChanges(lastOp)
    /\ EventCount(lastOp.events, "status_change") = 1
    /\ EventCount(lastOp.events, "progress_update") = 1

Receivers(events) == UNION {events[i].sentTo : i \in 1 .. Len(events)}

\* C6: every webhook an event is sent to is active and subscribed to the
\* event's type when the event is dispatched; a webhook subscribed only to
\* status_change gets nothing from an update that changes the progress and
\* not the status; with no matching webhook nothing is sent.
C6_OnlySubscribedActive ==
    /\ \A i \in 1 .. Len(lastOp.events) :
         LET d == lastOp.events[i] IN
         /\ \A w \in d.sentTo :
              /\ w \in DOMAIN webhooks
              /\ webhooks[w].is_active
              /\ d.event \in webhooks[w].events
         /\ (\A w \in DOMAIN webhooks :
               ~(webhooks[w].is_active /\ d.event \in webhooks[w].events))
              => d.sentTo = {}
    /\ (AcceptedUpdate(lastOp) /\ ProgressChanges(lastOp) /\ ~StatusChanges(lastOp)) =>
         \A w \in DOMAIN webhooks :
            webhooks[w].events = {"status_change"} => w \notin Receivers(lastOp.events)

C6_Witness ==
    /\ AcceptedUpdate(lastOp)
    /\ ProgressChanges(lastOp)
    /\ ~StatusChanges(lastOp)
    /\ \E w \in DOMAIN webhooks :
          webhooks[w].is_active /\ webhooks[w].events = {"status_change"}
    /\ Len(lastOp.events) = 1
    /\ Receivers(lastOp.events) = {}

C8_CompletedAtIffCompleted ==
    \A id \in DOMAIN jobs :
        (jobs[id].completed_at # Null) <=> (id \in everCompleted)

InRange(progress) == progress >= 0 /\ progress <= 100

ProposesOutOfRange(r) ==
    /\ r.op \in {"create", "update"}
    /\ Has(r.body, "progress")
    /\ ~InRange(r.body.progress)

\* C9: the progress of every stored (and cached) job stays within [0,100],
\* and a request proposing a progress outside [0,100] is rejected with a
\* validation error, changes neither the store nor the cache and emits no
\* event.
C9_ProgressInRange ==
    [][/\ \A id \in DOMAIN jobs' : InRange(jobs'[id].progress)
       /\ \A id \in DOMAIN cache' : InRange(cache'[id].progress)
       /\ ProposesOutOfRange(lastOp') =>
            /\ lastOp'.code = 400
            /\ lastOp'.events = <<>>
            /\ jobs' = jobs
            /\ cache' = cache
            /\ nextId' = nextId]_vars

C9_Witness ==
    /\ lastOp.op = "update"
    /\ lastOp.id \in DOMAIN jobs
    /\ Has(lastOp.body, "progress")
    /\ lastOp.body.progress = 101
    /\ lastOp.code = 400
    /\ lastOp.id \in DOMAIN cache
    /\ InRange(jobs[lastOp.id].progress)

\* the expiry condition as the specification words it
PastTtl(job, t) == job.ttl # Null /\ job.ttl > 0 /\ job.created_at + job.ttl < t

\* C10: a run of cleanupExpiredJobs at time t deletes exactly the jobs whose
\* ttl is set, positive and such that created_at + ttl < t, and leaves every
\* other job as it was; a job created exactly ttl ago is kept, and so is a
\* job without ttl whatever its age.
C10_SweepExactlyExpired ==
    lastOp.op = "sweep" =>
        /\ DOMAIN jobs \subseteq DOMAIN lastOp.before
        /\ \A id \in DOMAIN lastOp.before :
             IF PastTtl(lastOp.before[id], lastOp.at)
             THEN id \notin DOMAIN jobs
             ELSE id \in DOMAIN jobs /\ jobs[id] = lastOp.before[id]
        /\ \A id \in DOMAIN lastOp.before :
             LET j == lastOp.before[id] IN
             /\ (j.ttl = 2 /\ j.created_at = lastOp.at - 4) => id \notin DOMAIN jobs
             /\ (j.ttl = 2 /\ j.created_at = lastOp.at - 1) => id \in DOMAIN jobs
             /\ (j.ttl = 2 /\ j.created_at = lastOp.at - 2) => id \in DOMAIN jobs
             /\ j.ttl = Null => id \in DOMAIN jobs

\* a sweep that removed a job created 4 units before with ttl 2 and kept one
\* created 1 unit before with ttl 2 (2 h and 30 min against a ttl of 1 h)
C10_Witness ==
    /\ lastOp.op = "sweep"
    /\ \E a, b \in DOMAIN lastOp.before :
          /\ lastOp.before[a].ttl = 2
          /\ lastOp.before[a].created_at = lastOp.at - 4
          /\ a \notin DOMAIN jobs
          /\ lastOp.before[b].ttl = 2
          /\ lastOp.before[b].created_at = lastOp.at - 1
          /\ b \in DOMAIN jobs

\* a delivery of the awaited fan-out has not reached its final outcome
DeliveryOutstanding ==
    \E w \in DOMAIN fan.chains : fan.chains[w].pc \in {"request", "backoff"}

\* the record of the request is persisted and the cache updated
PersistedAndCached == req.pc \in {"trigger", "sending", "respond"}

\* C1: the response of a lifecycle operation never waits for webhook
\* delivery: once the record is persisted and the cache updated the response
\* step is enabled, also while a delivery attempt or a retry backoff of the
\* operation's events is outstanding.
C1_ResponseNeverWaits ==
    (PersistedAndCached /\ DeliveryOutstanding) => ENABLED ReqRespond

\* the ids the sweep handled last has deleted
SweptIds == ExpiredJobs(lastOp.before, lastOp.at)

\* an id that was given to a job whose row is no longer in the store
GoneIds == {id \in 1 .. (nextId - 1) : id \notin DOMAIN jobs}

\* C11: after the sweep has deleted a job (created with a ttl, its cache
\* entry written by the create) the cache entry of its id is gone, and a
\* later read of that id reports the job absent.
C11_SweptJobAbsent ==
    /\ lastOp.op = "sweep" => \A id \in SweptIds : id \notin DOMAIN cache
    /\ GoneIds \cap DOMAIN cache = {}
    /\ (lastOp.op = "get" /\ lastOp.id \in GoneIds) => lastOp.code = 404

C11_Witness ==
    /\ lastOp.op = "get"
    /\ lastOp.id \in GoneIds
    /\ lastOp.code = 404
    /\ now >= 3

\* C12: a read of an id that starts after the delete of that id has been
\* answered reports the job absent, in every interleaving of the delete with
\* other reads of the id; it never returns a cached copy of the deleted job.
C12_NoStaleReadAfterDelete ==
    \A p \in Procs :
        (procs[p].op = "get" /\ procs[p].pc = "done" /\ procs[p].afterDelete)
            => procs[p].code = 404

\* the number of operations of the bulk request handled last that were
\* carried out and are not deletes
BulkNonDeletes ==
    Cardinality({i \in 1 .. Len(lastOp.results) :
                    lastOp.results[i].success /\ lastOp.results[i].operation # "delete"})

\* the request handled last dispatched nothing for a removal
NoRemovalEvent ==
    /\ lastOp.op \in {"delete", "sweep"} => lastOp.events = <<>>
    /\ lastOp.op = "bulk" => Len(lastOp.events) = BulkNonDeletes

\* C13: the removal of a job causes no webhook delivery: the expiry sweep,
\* DELETE and a delete inside a bulk request dispatch no event, and none of
\* them changes a webhook record.
C13_RemovalEmitsNothing ==
    [][/\ NoRemovalEvent'
       /\ lastOp'.op \in {"delete", "sweep", "bulk"} => webhooks' = webhooks]_vars

C13_Witness ==
    /\ lastOp.op = "sweep"
    /\ SweptIds # {}
    /\ MatchingWebhooks(webhooks, "status_change") # {}

\* the request handled in this step is an update with a valid patch, or a
\* delete, of an id that has no row
OnAbsentId ==
    /\ lastOp'.op \in {"update", "delete"}
    /\ lastOp'.id \notin DOMAIN jobs
    /\ lastOp'.op = "update" => ~updateJobSchema(lastOp'.body).error

\* C14: an update or a delete of an id that is not in the store is answered
\* NotFound and changes nothing: no job row, no cache entry and no webhook
\* is created, modified or removed and no event is dispatched.
C14_NotFoundChangesNothing ==
    [][OnAbsentId =>
          /\ lastOp'.code = 404
          /\ lastOp'.events = <<>>
          /\ jobs' = jobs
          /\ cache' = cache
          /\ webhooks' = webhooks]_vars

C14_Witness ==
    /\ lastOp.op = "update"
    /\ lastOp.code = 404
    /\ Has(lastOp.body, "status")
    /\ MatchingWebhooks(webhooks, "status_change") # {}
    /\ lastOp.id \in GoneIds

\* the number of creates carried out before position i of the bulk request
\* handled in this step
CreatedBefore(i) ==
    Cardinality({j \in 1 .. (i - 1) :
                    lastOp'.ops[j].operation = "create" /\ lastOp'.results[j].success})

\* the job id has a row when the operation at position i starts, the
\* operations before i having run in the listed order
LiveAt(i, id) ==
    LET earlier == {j \in 1 .. (i - 1) :
                       /\ lastOp'.results[j].success
                       /\ \/ /\ lastOp'.ops[j].operation = "delete"
                             /\ lastOp'.ops[j].data.id = id
                          \/ /\ lastOp'.ops[j].operation = "create"
                             /\ nextId + CreatedBefore(j) = id}
    IN  IF earlier = {} THEN id \in DOMAIN jobs
        ELSE lastOp'.ops[CHOOSE j \in earlier : \A k \in earlier : k <= j].operation
                = "create"

\* the operation at position i is carried out
ExpectedSuccess(i) ==
    /\ i \notin lastOp'.faults
    /\ \/ lastOp'.ops[i].operation = "create"
       \/ LiveAt(i, lastOp'.ops[i].data.id)

\* C15: a bulk request runs its operations one after another in the listed
\* order; an operation that fails (job not found, store error) is recorded
\* as failed and the operations after it still run; the results have one
\* entry per operation in the same order, and the success count is the
\* number of entries marked successful.
C15_BulkPerItemResults ==
    [][(lastOp'.op = "bulk" /\ lastOp'.code = 200) =>
          /\ Len(lastOp'.results) = Len(lastOp'.ops)
          /\ \A i \in 1 .. Len(lastOp'.ops) :
                /\ lastOp'.results[i].operation = lastOp'.ops[i].operation
                /\ lastOp'.results[i].success = ExpectedSuccess(i)
          /\ lastOp'.successCount =
                Cardinality({i \in 1 .. Len(lastOp'.results) : lastOp'.results[i].success})
          /\ DOMAIN jobs' =
                {id \in 1 .. (nextId' - 1) : LiveAt(Len(lastOp'.ops) + 1, id)}]_vars

C15_Witness ==
    /\ lastOp.op = "bulk"
    /\ lastOp.code = 200
    /\ \E i, j \in 1 .. Len(lastOp.results) :
          /\ i < j
          /\ ~lastOp.results[i].success
          /\ lastOp.results[j].success
    /\ lastOp.successCount = 1

\* the handler is inside a triggerWebhooks call
Emitting == req.pc \in {"trigger", "sending"}

\* C16: a failure while an event is emitted (error of the webhook query,
\* error building the payload, failed delivery to any webhook) never fails
\* the create or update: no step of the emission touches the stored record,
\* the cache or the status the handler will answer, and the handler answers
\* success with the record it persisted.
C16_EmissionFailureContained ==
    [][/\ Emitting =>
            /\ jobs' = jobs
            /\ cache' = cache
            /\ req'.code = req.code
            /\ req'.updatedJob = req.updatedJob
            /\ req'.pc \in {"trigger", "sending", "respond"}
       /\ (req.pc = "respond" /\ req.updatedJob # NoRow) =>
            /\ lastOp'.code = IF req.op = "create" THEN 201 ELSE 200
            /\ jobs'[req.id] = req.updatedJob]_vars

C16_Witness ==
    /\ lastOp.op = "update"
    /\ lastOp.code = 200
    /\ "delivery" \in lastOp.emitErrors
    /\ jobs[lastOp.id].status = "completed"

\* the number of rows of webhook_deliveries for the webhook, the job and
\* the event that carry the final reply of the attempt chain c
Recorded(w, jobId, eventType, c) ==
    Cardinality({k \in 1 .. Len(deliveries) :
                    /\ deliveries[k].webhook_id = w
                    /\ deliveries[k].job_id = jobId
                    /\ deliveries[k].event_type = eventType
                    /\ deliveries[k].status_code = c.replies[Len(c.replies)].status
                    /\ deliveries[k].retry_count = c.retryCount})

\* C17: every attempt chain of a fan-out that has ended, in success or in
\* terminal failure, has exactly one delivery record with its webhook id,
\* job id, event type and final outcome.
C17_DeliveryOutcomeRecorded ==
    \A w \in DOMAIN fan.chains :
        fan.chains[w].pc = "done" =>
            Recorded(w, req.id, Head(req.todo), fan.chains[w]) = 1

\* the URL parses and its scheme is http or https
HttpUrl(url) ==
    /\ url.scheme # ""
    /\ Lower(url.scheme) \in {"http", "https"}

\* C18: a webhook is stored only with a URL that parses with scheme http or
\* https: a registration or update with any other URL is rejected with a
\* validation error and leaves the registry unchanged, and every webhook of
\* the registry has such a URL.
C18_OnlyHttpUrls ==
    [][/\ \A w \in DOMAIN webhooks' : HttpUrl(webhooks'[w].url)
       /\ (/\ lastOp'.op \in {"webhook_create", "webhook_update"}
           /\ Has(lastOp'.body, "url") => ~HttpUrl(lastOp'.body.url))
          => (lastOp'.code = 400 /\ webhooks' = webhooks)]_vars

C18_Witness ==
    /\ lastOp.op = "webhook_update"
    /\ lastOp.code = 400
    /\ lastOp.id \in DOMAIN webhooks
    /\ Has(lastOp.body, "url")
    /\ lastOp.body.url.scheme = "ftp"
    /\ lastOp.body.events # {}

RunsOver ==
    /\ snap.active
    /\ \A p \in Passes : passes[p].pc \in {"idle", "done"}
    /\ \E p \in Passes : passes[p].pc = "done"

\* store and cache after one run on the snapshot
OneRunJobs == Restrict(snap.jobs, (DOMAIN snap.jobs) \ ExpiredJobs(snap.jobs, snap.at))
OneRunCache ==
    IF snap.kind = "expired"
    THEN Restrict(snap.cache, (DOMAIN snap.cache) \ ExpiredJobs(snap.jobs, snap.at))
    ELSE Restrict(snap.cache, (DOMAIN snap.cache) \cap (DOMAIN OneRunJobs))

\* C20: the cleanup passes are idempotent: two runs of the expiry sweep, or
\* of the full cleanup, at the same time, one after the other or
\* overlapping, with no other operation in between, leave the store and the
\* cache as a single run does.
C20_PassesIdempotent ==
    RunsOver => (jobs = OneRunJobs /\ cache = OneRunCache)

C20_Witness ==
    /\ RunsOver
    /\ snap.kind = "full"
    /\ \A p \in Passes : passes[p].pc = "done" /\ passes[p].ids # {}
    /\ DOMAIN snap.cache # {}

----------------------------------------------------------------------------
(* Properties of the cache wrapper *)

\* the getById cases of an existing job
ServedJob == lastOp.op = "get" /\ lastOp.code = 200

\* C21: with the cache unavailable no cache operation is an error: a request
\* or a sweep handled while redis is not ready leaves the same store and
\* gives the same response as the same requests handled with a cache that is
\* always ready, and getById reads the store on every such call.
C21_CacheOutageInvisible ==
    /\ jobs = mirror.ref.jobs
    /\ nextId = mirror.ref.nextId
    /\ mirror.down =>
          /\ lastOp.code = mirror.ref.code
          /\ lastOp.prev = mirror.ref.job
          /\ lastOp.op = "get" => mirror.readStore

\* a job is read during an outage that an update was handled in, while the
\* always-ready server answers from its cache
C21_Witness ==
    /\ mirror.down
    /\ ServedJob
    /\ lastOp.id \in DOMAIN cache
    /\ cache[lastOp.id] # jobs[lastOp.id]
    /\ ~mirror.ref.readStore

----------------------------------------------------------------------------
(* Properties of the single-job routes *)

\* the step is a POST /api/jobs answered with 201
CreateAccepted ==
    /\ lastOp'.op = "create"
    /\ lastOp'.code = 201
    /\ nextId' = nextId + 1

\* C22: create stores a new job under a fresh id, with status pending unless
\* the request gives a status, created_at and updated_at stamped with the
\* clock, leaves the other jobs alone, writes the stored row into the cache
\* under the job's id, and emits exactly one status_change event, without a
\* previous state.
C22_CreateStoresCachesEmits ==
    [][CreateAccepted =>
        LET id == lastOp'.id
            body == lastOp'.body
        IN  /\ id \notin DOMAIN jobs
            /\ id \notin GoneIds
            /\ DOMAIN jobs' = (DOMAIN jobs) \cup {id}
            /\ \A j \in DOMAIN jobs : jobs'[j] = jobs[j]
            /\ jobs'[id].status = (IF Has(body, "status") THEN body.status ELSE "pending")
            /\ jobs'[id].created_at = now
            /\ jobs'[id].updated_at = now
            /\ id \in DOMAIN cache'
            /\ cache'[id] = jobs'[id]
            /\ Len(lastOp'.events) = 1
            /\ lastOp'.events[1].event = "status_change"
            /\ lastOp'.events[1].jobId = id
            /\ ~lastOp'.events[1].previous]_vars

\* a job created with a status of its own, after the clock has advanced,
\* while a webhook listens
C22_Witness ==
    /\ lastOp.op = "create"
    /\ lastOp.code = 201
    /\ Has(lastOp.body, "status")
    /\ now > 0
    /\ lastOp.id \in DOMAIN jobs
    /\ jobs[lastOp.id].created_at = now
    /\ lastOp.events[1].sentTo # {}

\* the patch of an accepted update changes the status and the progress
ChangesBoth(r) ==
    /\ AcceptedUpdate(r)
    /\ Has(r.body, "status") /\ r.body.status # r.prev.status
    /\ Has(r.body, "progress") /\ r.body.progress # r.prev.progress

\* C23: an update that changes both the status and the progress dispatches
\* both events, status_change first and progress_update second.
C23_StatusBeforeProgress ==
    ChangesBoth(lastOp) =>
        /\ Len(lastOp.events) = 2
        /\ lastOp.events[1].event = "status_change"
        /\ lastOp.events[2].event = "progress_update"
        /\ lastOp.events[1].jobId = lastOp.id
        /\ lastOp.events[2].jobId = lastOp.id

C23_Witness ==
    /\ ChangesBoth(lastOp)
    /\ lastOp.events[1].sentTo # {}
    /\ lastOp.events[2].sentTo # {}

----------------------------------------------------------------------------
(* Properties of sendWebhooks *)

\* the positions of the list that make up the batch starting after i
BatchPositions(i) ==
    {k \in 1 .. Len(fan.list) : k > i /\ k <= i + batchSize}

\* sendWebhooks is running: the batch in flight, or paused after it, is the
\* next batchSize webhooks of the list; every earlier batch has settled
FanShape ==
    fan.pc # "idle" =>
        /\ fan.i % batchSize = 0
        /\ fan.i < Len(fan.list)
        /\ DOMAIN fan.chains = {fan.list[k] : k \in BatchPositions(fan.i)}
        /\ Cardinality(DOMAIN fan.chains) <= batchSize
        /\ \A k \in 1 .. Len(fan.results) : fan.results[k].pc = "done"
        /\ fan.pc = "batch" => Len(fan.results) = fan.i
        /\ fan.pc = "pause" =>
              /\ \A w \in DOMAIN fan.chains : fan.chains[w].pc = "done"
              /\ Len(fan.results) = fan.i + Cardinality(DOMAIN fan.chains)
              /\ fan.i + batchSize < Len(fan.list)

\* C24: a fan-out is split into consecutive batches of at most batchSize
\* webhooks in listed order; no delivery of a batch starts before every
\* chain of the batch before it has reached its final outcome; the
\* deliveries of a batch are all started together; a pause separates
\* consecutive batches and no pause follows the last batch.
C24_BatchedFanOut ==
    [][/\ FanShape'
       /\ (fan'.pc = "batch" /\ fan.pc # "batch") =>
             /\ \A w \in DOMAIN fan'.chains : fan'.chains[w] = NewChain
             /\ fan.pc = "idle" => fan'.i = 0
             /\ fan.pc = "pause" => fan'.i = fan.i + batchSize
       /\ (fan.pc = "batch" /\ fan'.pc # "batch") =>
             /\ \A w \in DOMAIN fan.chains : fan.chains[w].pc = "done"
             /\ fan'.pc = "pause" <=> fan.i + batchSize < Len(fan.list)
       /\ (fan.pc # "idle" /\ fan'.pc # "idle") => fan'.list = fan.list]_vars

\* the second batch is in flight after the first has settled with a retry
C24_Witness ==
    /\ fan.pc = "batch"
    /\ fan.i > 0
    /\ Len(fan.results) = fan.i
    /\ \E k \in 1 .. Len(fan.results) : Len(fan.results[k].replies) > 1
    /\ \E w \in DOMAIN fan.chains : fan.chains[w].replies # <<>>

----------------------------------------------------------------------------
(* Properties of the retry schedule *)

\* the delays so far are 1 s, 2 s, 4 s, ... in milliseconds
Doubling(delays) ==
    /\ delays # <<>> => delays[1] = 1000
    /\ \A i \in 1 .. Len(delays) - 1 : delays[i + 1] = 2 * delays[i]

\* C25: retries back off exponentially: the attempt counter starts at 0 and
\* grows by exactly 1 per retry, the delay before the retry that follows the
\* failure of attempt k is 2^k seconds (1 s, 2 s, 4 s for the default maximum
\* of 3), and no retry is issued once the counter equals the maximum.
C25_ExponentialBackoff ==
    [][/\ Doubling(chain'.delays)
       /\ chain'.retryCount \in {chain.retryCount, chain.retryCount + 1}
       /\ chain'.retryCount = chain.retryCount + 1 <=> chain.pc = "backoff"
       /\ chain'.pc = "backoff" =>
             /\ chain.retryCount < maxRetries
             /\ Len(chain'.delays) = chain.retryCount + 1
             /\ chain'.delays[Len(chain'.delays)] = (2 ^ chain.retryCount) * 1000
       /\ chain'.retryCount <= maxRetries
       /\ Len(chain'.replies) = Len(chain.replies) + 1 =>
             Len(chain.replies) = chain.retryCount]_vars

\* the default maximum: three retries after 1 s, 2 s and 4 s
C25_Witness ==
    /\ envRetries = Unset
    /\ chain.pc = "done"
    /\ chain.retryCount = 3
    /\ chain.delays = <<1000, 2000, 4000>>

\* the number of retries the configuration asks for
ConfiguredRetries == IF envRetries = Unset THEN 3 ELSE envRetries

\* C26: the configured maximum retry count is honoured for every value
\* N >= 0: a finished chain against an endpoint that always answers 503 has
\* made exactly N retries, none for N = 0, and 3 when the value is unset.
C26_ConfiguredMaxHonoured ==
    (chain.pc = "done" /\ AllStatus(chain, 503) /\ (envRetries = Unset \/ envRetries >= 0)) =>
        /\ chain.retryCount = ConfiguredRetries
        /\ NumRequests(chain) = ConfiguredRetries + 1

----------------------------------------------------------------------------
(* Properties of the cache reconciliation *)

\* the step is a run of cleanupRedisCache
CacheSweepStep ==
    /\ lastOp'.op = "cacheSweep"
    /\ now' = now
    /\ nextId' = nextId

\* C27: the cache reconciliation evicts a cache entry if and only if the
\* job of the entry is no longer in the store: the entries of existing jobs
\* are kept unchanged, the entries of jobs that are gone are removed, and
\* the store is not modified.
C27_EvictsExactlyOrphans ==
    [][CacheSweepStep =>
          /\ jobs' = jobs
          /\ DOMAIN cache' = (DOMAIN cache) \cap (DOMAIN jobs)
          /\ \A id \in DOMAIN cache' : cache'[id] = cache[id]]_vars

----------------------------------------------------------------------------
(* Properties of the expiry of cache keys *)

\* the cache entry of id is not the row the store holds
StaleEntry(id) ==
    /\ id \in DOMAIN cache
    /\ id \notin DOMAIN jobs \/ cache[id] # jobs[id]

\* C28: a cache entry that differs from the stored record, as a PUT racing
\* with the read-through populate of a GET leaves behind, is bounded in
\* time: every write of a job key carries the expiry of one hour, so the
\* entry is gone at most 3600 s after it was written.
C28_StaleEntryExpires ==
    \A id \in DOMAIN cache :
        /\ id \in DOMAIN expiry
        /\ expiry[id].until = expiry[id].at + 3600
        /\ StaleEntry(id) => now < expiry[id].at + 3600

\* the race has left a stale entry, which is half an hour old
C28_Witness ==
    \E id \in DOMAIN jobs :
        /\ StaleEntry(id)
        /\ now > expiry[id].at
        /\ procs[Reader].pc = "idle"
        /\ procs[Writer].pc = "idle"

----------------------------------------------------------------------------
(* Properties of the event types *)

\* the webhook listens to nothing but completion and failure
TerminalOnly(w) == webhooks[w].events \subseteq {"completion", "failure"}

\* C29: the lifecycle operations dispatch no event type other than
\* status_change and progress_update: whatever create, update, delete, the
\* bulk route and the sweeps have done, no completion or failure event is
\* dispatched, and a webhook that listens only to completion and failure is
\* sent nothing, also when a job becomes completed or failed.
C29_OnlyStatusAndProgress ==
    \A i \in 1 .. Len(lastOp.events) :
        /\ lastOp.events[i].event \in {"status_change", "progress_update"}
        /\ \A w \in lastOp.events[i].sentTo : ~TerminalOnly(w)

\* a job has just been completed or failed while an active webhook listens
\* to completion and failure only
C29_Witness ==
    /\ AcceptedUpdate(lastOp)
    /\ lastOp.id \in DOMAIN jobs
    /\ jobs[lastOp.id].status \in {"completed", "failed"}
    /\ lastOp.prev.status = "pending"
    /\ lastOp.events # <<>>
    /\ \E w \in DOMAIN webhooks : TerminalOnly(w) /\ webhooks[w].is_active

----------------------------------------------------------------------------
(* Properties of the update case of the bulk route *)

\* the step is a bulk request of one update that found its job
BulkUpdateStep ==
    /\ lastOp'.op = "bulk"
    /\ lastOp'.code = 200
    /\ now' = now
    /\ Len(lastOp'.ops) = 1
    /\ lastOp'.ops[1].operation = "update"
    /\ lastOp'.results[1].success

\* C30: an update applied as an item of the bulk route behaves like the
\* same patch sent to PUT /api/jobs/:id in the same state: the stored row
\* is the same, status_change is emitted if and only if the status changed
\* and progress_update if and only if the progress changed.
C30_BulkUpdateLikeUpdate ==
    [][BulkUpdateStep =>
        LET id == lastOp'.ops[1].data.id
            patch == Restrict(lastOp'.ops[1].data, (DOMAIN lastOp'.ops[1].data) \ {"id"})
            currentJob == jobs[id]
        IN  /\ jobs'[id] = UpdatedRow(currentJob, PutUpdateData(patch, currentJob, now))
            /\ EventCount(lastOp'.events, "status_change")
                  = (IF Has(patch, "status") /\ patch.status # currentJob.status
                     THEN 1 ELSE 0)
            /\ EventCount(lastOp'.events, "progress_update")
                  = (IF Has(patch, "progress") /\ patch.progress # currentJob.progress
                     THEN 1 ELSE 0)]_vars

----------------------------------------------------------------------------
(* Properties of the payload *)

\* the payload of the i-th event of the last request was built
Built(i) == payloads[i] # NoPayload

\* C31: the payload built for an event carries the event, a timestamp and
\* the fields of the job (its id, status, progress, creation and update
\* times); previousState is there exactly when one was supplied; completedAt
\* only for a completion event and error only for a failure event; the
\* payload of an update event carries the row after the update as the job
\* and the row before it as previousState.
C31_PayloadContents ==
    \A i \in DOMAIN payloads :
        Built(i) =>
            LET p == payloads[i]
                row == jobs[lastOp.id]
            IN  /\ p.event = lastOp.events[i].event
                /\ Has(p, "timestamp")
                /\ p.job.id = row.id
                /\ p.job.status = row.status
                /\ p.job.progress = row.progress
                /\ p.job.createdAt = row.created_at
                /\ p.job.updatedAt = row.updated_at
                /\ Has(p, "previousState") <=> lastOp.events[i].previous
                /\ Has(p.job, "completedAt") => p.event = "completion"
                /\ Has(p.job, "error") => p.event = "failure"
                /\ lastOp.op = "update" => p.previousState = lastOp.prev

----------------------------------------------------------------------------
(* Properties of last_triggered *)

\* the step is a request that sent something to webhooks
SendingStep == lastOp' # lastOp /\ lastOp'.op \in {"create", "update", "test"}

\* C32: lastTriggered of a webhook is the time of the most recent
\* successful send to it: a job event or a test send that sendWebhook
\* reports as delivered sets it to the time of the request, a failed
\* delivery leaves it as it was.
C32_LastTriggeredTracksSuccess ==
    [][SendingStep =>
          \A w \in DOMAIN webhooks :
              LastTriggered(lastTriggered', w) =
                  IF w \in DOMAIN outcomes' /\ outcomes'[w]
                  THEN now
                  ELSE LastTriggered(lastTriggered, w)]_vars

----------------------------------------------------------------------------
(* Properties of the cleanup service *)

\* a schedule ticks while the service is stopped
TickWhileStopped == lastTick' # lastTick /\ ~service.isRunning

\* C33: once stop() has returned, no scheduled pass deletes a job, a
\* delivery record or a cache entry: the ticks of the hourly and of the
\* 15-minute schedule change nothing until start() is called again.
C33_StoppedServiceSweepsNothing ==
    [][TickWhileStopped =>
          /\ jobs' = jobs
          /\ cache' = cache
          /\ deliveries' = deliveries]_vars

\* C34: whatever the sequence of start() and stop() calls, at most one
\* hourly and one 15-minute schedule are registered, and a tick of a
\* schedule starts at most one pass.
C34_OneScheduleEach ==
    /\ service.hourly <= 1
    /\ service.quarter <= 1
    /\ lastTick.passes <= 1

----------------------------------------------------------------------------
(* Properties of concurrent updates *)

\* the handler p has answered a PUT whose job was there at its select and
\* gone at its update
Vanished(p) ==
    /\ procs[p].pc = "done"
    /\ procs[p].op = "update"
    /\ procs[p].job # NoRow
    /\ procs[p].updated = NoRow

\* the handler p has answered a PUT that sets the status to completed
Completing(p) ==
    /\ procs[p].pc = "done"
    /\ procs[p].op = "update"
    /\ procs[p].code = 200
    /\ Has(procs[p].body, "status")
    /\ procs[p].body.status = "completed"

\* the handler p has emitted status_change
EmittedStatusChange(p) ==
    \E i \in DOMAIN procs[p].events : procs[p].events[i].event = "status_change"

\* C35: of two concurrent updates of the same job that both set the status
\* to completed, one stamps completed_at and the value stays, and
\* status_change is emitted once, for the one transition to completed.
C35_ConcurrentCompletionOnce ==
    [][/\ \A id \in (DOMAIN jobs) \cap (DOMAIN jobs') :
              jobs[id].completed_at # Null => jobs'[id].completed_at = jobs[id].completed_at
       /\ \A p, q \in Procs :
              (/\ p # q
               /\ Completing(p)'
               /\ Completing(q)'
               /\ procs'[p].id = procs'[q].id)
              => ~(EmittedStatusChange(p)' /\ EmittedStatusChange(q)')]_vars

\* C36: an update whose job is removed, by a delete or by the expiry sweep,
\* between its read of the current row and its write answers not found,
\* creates no row, leaves no cache entry of the id and dispatches no event.
C36_UpdateOfVanishedJob ==
    \A p \in Procs :
        Vanished(p) =>
            /\ procs[p].code = 404
            /\ procs[p].id \notin DOMAIN jobs
            /\ procs[p].id \notin DOMAIN cache
            /\ procs[p].events = <<>>

\* C37: the expiry sweep deletes only jobs that are expired at the moment
\* they are deleted: a job whose ttl an update has raised between the select
\* of the sweep and its delete, so that it is no longer expired, stays.
C37_SweepDeletesOnlyExpired ==
    [][\A id \in (DOMAIN jobs) \ (DOMAIN jobs') : id \in ExpiredJobs(jobs, now)]_vars

----------------------------------------------------------------------------
(* Properties of a fan-out next to changes of the registry *)

\* the step sends an HTTP request, a first attempt or a retry, to webhook w
AttemptTo(w) ==
    /\ fan.pc = "batch"
    /\ w \in DOMAIN fan.chains
    /\ w \in DOMAIN fan'.chains
    /\ NumRequests(fan'.chains[w]) > NumRequests(fan.chains[w])

\* C38: no delivery attempt goes to a webhook that has been deactivated or
\* deleted, also when that happened while a fan-out that had selected the
\* webhook was running or backing off.
C38_NoAttemptAfterDeactivation ==
    [][\A w \in IdInputs(MaxReqWebhooks) :
          AttemptTo(w) => w \in DOMAIN webhooks /\ webhooks[w].is_active]_vars

----------------------------------------------------------------------------
(* Properties of the cache next to the store *)

\* C39: after any sequence of operations that do not overlap (create,
\* getById, update, delete, the bulk route, the expiry sweep, the cache
\* sweep), with the cache available, a cache entry of a job id exists only
\* if the store holds the job, and is then the row of the store.
C39_CacheAgreesWithStore ==
    \A id \in DOMAIN cache :
        /\ id \in DOMAIN jobs
        /\ cache[id] = jobs[id]

\* a job that was updated, which removed its entry, is read and cached again
C39_Witness ==
    /\ lastOp.op = "get"
    /\ lastOp.code = 200
    /\ lastOp.id \in DOMAIN cache
    /\ lastOp.id \in DOMAIN jobs
    /\ jobs[lastOp.id].progress = 50
    /\ cache[lastOp.id] = jobs[lastOp.id]

----------------------------------------------------------------------------
(* Properties of the loop of sendWebhooks *)

\* the step starts the next batch after the pause
NextBatch == fan.pc = "pause" /\ fan'.pc = "batch"

\* the step is the return of sendWebhooks
FanReturns == fan.pc = "batch" /\ fan'.pc = "idle"

\* the results sendWebhooks returns: those of the earlier batches and those
\* of the batch that has settled
FinalResults ==
    fan.results \o [k \in 1 .. Cardinality(DOMAIN fan.chains) |->
                       fan.chains[fan.list[fan.i + k]]]

\* C40: a fan-out terminates and reaches every matching webhook, whatever
\* the webhooks answer: every next batch starts further down the list, so
\* that the loop reaches the end of the list, and sendWebhooks returns one
\* result per webhook, each webhook having received at least one and at
\* most maxRetries + 1 requests.
C40_FanOutTerminatesAndCovers ==
    [][/\ NextBatch => fan'.i > fan.i /\ fan'.i < Len(fan.list)
       /\ FanReturns =>
             /\ Len(FinalResults) = Len(fan.list)
             /\ \A k \in DOMAIN FinalResults :
                    /\ FinalResults[k].pc = "done"
                    /\ NumRequests(FinalResults[k]) >= 1
                    /\ NumRequests(FinalResults[k]) <= maxRetries + 1]_vars

====
